---- MODULE Spec2Model ----
(***************************************************************************)
(* Model of the calyptia CLI's cluster resource lifecycle manager:         *)
(*   cmd/operator/install.go, cmd/operator/update.go (which also holds     *)
(*   the uninstall command) and k8s/client.go.                             *)
(*                                                                         *)
(* Text is modelled as a sequence of tokens, each token standing for the   *)
(* literal piece of text written in its string.  The tokens are chosen so  *)
(* that every pattern the code searches for is a sequence of whole tokens. *)
(***************************************************************************)
EXTENDS Integers, Sequences, FiniteSets, TLC

VARIABLES
    cmd,    \* the command being run (install / update / uninstall): position, flags, result
    kube,   \* the remote cluster as the command flows see it
    fs,     \* the local temporary directory: artefacts left on disk, by invocation
    mf,     \* one call of the Manifest Preparer: its inputs, then its output
    client, \* the k8s.Client in use: its Namespace and the labels of its LabelsFunc
    agg,    \* the core instance (cloud.CreatedCoreInstance) the client works on
    cluster,\* the objects of the cluster the client talks to
    ret,    \* the last call of a Client method: its arguments and what it returned
    wr      \* one call of WaitReady: clock, deadline, pods, result

vars == <<cmd, kube, fs, mf, client, agg, cluster, ret, wr>>

\* The value of a variable that a specification does not use.
Unused == "unused"

(***************************************************************************)
(* Bounds of the model.                                                    *)
(***************************************************************************)
MaxRuns == 2        \* command invocations in one behaviour
MaxDocs == 3        \* documents in a base manifest
MaxTimeout == 7     \* the longest waitTimeout handed to WaitReady, in seconds
MaxPods == 2        \* pods selected by the deployment that WaitReady waits for
MaxResidues == 3    \* objects of a cluster that is not a complete install
MaxNamespaces == 3  \* namespaces in the listing that the manager search walks

(***************************************************************************)
(* Go's strings package over token sequences.                              *)
(***************************************************************************)
Range(s) == {s[i] : i \in 1..Len(s)}

HasPrefix(s, p) == Len(s) >= Len(p) /\ SubSeq(s, 1, Len(p)) = p

\* strings.Index: the first position at which sep occurs in s, 0 when none.
Index(s, sep) ==
    LET hits == {i \in 1..(Len(s) - Len(sep) + 1) : SubSeq(s, i, i + Len(sep) - 1) = sep}
    IN  IF hits = {} THEN 0 ELSE CHOOSE i \in hits : \A j \in hits : i <= j

Contains(s, sub) == Index(s, sub) # 0

RECURSIVE Split(_, _)
\* strings.Split(s, sep) for a non-empty sep.
Split(s, sep) ==
    LET i == Index(s, sep)
    IN  IF i = 0 THEN <<s>>
        ELSE <<SubSeq(s, 1, i - 1)>> \o Split(SubSeq(s, i + Len(sep), Len(s)), sep)

RECURSIVE Join(_, _)
\* strings.Join(parts, sep).
Join(parts, sep) ==
    IF Len(parts) = 0 THEN <<>>
    ELSE IF Len(parts) = 1 THEN parts[1]
    ELSE parts[1] \o sep \o Join(Tail(parts), sep)

RECURSIVE ReplaceAll(_, _, _)
\* strings.ReplaceAll(s, old, new) for a non-empty old.
ReplaceAll(s, old, new) ==
    LET i == Index(s, old)
    IN  IF i = 0 THEN s
        ELSE SubSeq(s, 1, i - 1) \o new \o ReplaceAll(SubSeq(s, i + Len(old), Len(s)), old, new)

(***************************************************************************)
(* Manifest Preparer (cmd/operator/install.go).                            *)
(* Tokens of manifest text: "---" and "\n" (a separator line is the two    *)
(* in a row), "namespace: ", "name: ", "calyptia", "-core", "image:", " ", *)
(* the repository "ghcr.io/calyptia/core-operator", ":", and any other     *)
(* token for other text.                                                   *)
(***************************************************************************)
Separator == <<"---", "\n">>                              \* "---\n"
NamespacePlaceholder == <<"namespace: ", "calyptia", "-core">>   \* "namespace: calyptia-core"
NamePlaceholder == <<"name: ", "calyptia", "-core">>             \* "name: calyptia-core"
OperatorRepo == "ghcr.io/calyptia/core-operator"
DigitTokens == {"1", "23"}

\* strconv.Atoi(namespace) succeeds: the text is a run of digits.
IsInteger(namespace) == Len(namespace) > 0 /\ \A i \in 1..Len(namespace) : namespace[i] \in DigitTokens

\* fmt.Sprintf(`"%s"`, namespace) when the namespace parses as an integer.
QuoteIfInteger(namespace) ==
    IF IsInteger(namespace) THEN <<"\"">> \o namespace \o <<"\"">> ELSE namespace

\* A slip in the slice bound: splitFile[2:] in place of splitFile[1:].
solveNamespaceCreation_SkipTwo(createNamespace, fullFile, namespace) ==
    IF ~createNamespace
      THEN Join(Tail(Tail(Split(fullFile, Separator) \o <<<<>>>>)), Separator)
      ELSE ReplaceAll(fullFile, NamePlaceholder, <<"name: ">> \o QuoteIfInteger(namespace))

solveNamespaceCreation(createNamespace, fullFile, namespace) ==
    IF ~createNamespace
      THEN Join(Tail(Split(fullFile, Separator)), Separator)
      ELSE ReplaceAll(fullFile, NamePlaceholder, <<"name: ">> \o QuoteIfInteger(namespace))

\* A variant that replaces the first occurrence only.
injectNamespace_FirstOnly(s, namespace) ==
    LET i == Index(s, NamespacePlaceholder)
    IN  IF i = 0 THEN s
        ELSE SubSeq(s, 1, i - 1) \o <<"namespace: ">> \o QuoteIfInteger(namespace)
                 \o SubSeq(s, i + Len(NamespacePlaceholder), Len(s))

\* A variant whose pattern is the key alone: the namespace is put in after "namespace: ".
injectNamespace_AfterKey(s, namespace) ==
    ReplaceAll(s, <<"namespace: ">>, <<"namespace: ">> \o QuoteIfInteger(namespace))

injectNamespace(s, namespace) ==
    ReplaceAll(s, NamespacePlaceholder, <<"namespace: ">> \o QuoteIfInteger(namespace))

(* The pattern `image:\s*ghcr.io/calyptia/core-operator:[^\n\r]*`. *)
IsSpace(t) == t \in {" ", "\n", "\r"}

RECURSIVE SkipSpace(_, _)
SkipSpace(s, i) == IF i <= Len(s) /\ IsSpace(s[i]) THEN SkipSpace(s, i + 1) ELSE i

RECURSIVE LineEnd(_, _)
LineEnd(s, i) == IF i <= Len(s) /\ s[i] \notin {"\n", "\r"} THEN LineEnd(s, i + 1) ELSE i

\* The position just after the match that starts at i, 0 when none starts there.
MatchEnd(s, i) ==
    IF s[i] # "image:" THEN 0
    ELSE LET j == SkipSpace(s, i + 1)
         IN  IF j + 1 <= Len(s) /\ s[j] = OperatorRepo /\ s[j + 1] = ":"
               THEN LineEnd(s, j + 2)
               ELSE 0

\* The start of the leftmost match at or after position from, 0 when none.
MatchStart(s, from) ==
    LET hits == {i \in from..Len(s) : MatchEnd(s, i) # 0}
    IN  IF hits = {} THEN 0 ELSE CHOOSE i \in hits : \A j \in hits : i <= j

\* regexp.FindString: the leftmost match, empty when there is none.
FindString(s) ==
    LET i == MatchStart(s, 1)
    IN  IF i = 0 THEN <<>> ELSE SubSeq(s, i, MatchEnd(s, i) - 1)

RECURSIVE Expand(_, _)
\* regexp's expansion of a replacement template: "$0" stands for the match.
Expand(template, match) ==
    IF template = <<>> THEN <<>>
    ELSE (IF Head(template) = "$0" THEN match ELSE <<Head(template)>>)
         \o Expand(Tail(template), match)

\* Replacing the first match only.
ReplaceAllString_FirstOnly(s, repl) ==
    LET i == MatchStart(s, 1)
    IN  IF i = 0 THEN s
        ELSE LET e == MatchEnd(s, i)
             IN  SubSeq(s, 1, i - 1) \o Expand(repl, SubSeq(s, i, e - 1)) \o SubSeq(s, e, Len(s))

RECURSIVE ReplaceAllString(_, _)
\* regexp.ReplaceAllString(s, repl) for the image pattern.
ReplaceAllString(s, repl) ==
    LET i == MatchStart(s, 1)
    IN  IF i = 0 THEN s
        ELSE LET e == MatchEnd(s, i)
             IN  SubSeq(s, 1, i - 1) \o Expand(repl, SubSeq(s, i, e - 1))
                 \o ReplaceAllString(SubSeq(s, e, Len(s)), repl)

\* fmt.Sprintf("image: %s:%s", coreDockerImage, coreInstanceVersion)
ImageLine(coreDockerImage, coreInstanceVersion) ==
    <<"image:", " ">> \o coreDockerImage \o <<":">> \o coreInstanceVersion

\* A variant that hands the file back unchanged when no image line is found.
addImage_NoCheck(coreDockerImage, coreInstanceVersion, file) ==
    IF coreInstanceVersion # <<>>
      THEN [err |-> "nil",
            text |-> ReplaceAllString(file, ImageLine(coreDockerImage, coreInstanceVersion))]
      ELSE [err |-> "nil", text |-> file]

addImage(coreDockerImage, coreInstanceVersion, file) ==
    IF coreInstanceVersion # <<>>
      THEN IF FindString(file) = <<>>
             THEN [err |-> "could not find image in manifest", text |-> <<>>]
             ELSE [err |-> "nil",
                   text |-> ReplaceAllString(file, ImageLine(coreDockerImage, coreInstanceVersion))]
      ELSE [err |-> "nil", text |-> file]

\* The text prepareInstallManifest writes to the temporary file (or its error).
prepareInstallManifest(manifestFile, coreDockerImage, coreInstanceVersion, namespace, createNamespace) ==
    addImage(coreDockerImage, coreInstanceVersion,
             injectNamespace(solveNamespaceCreation(createNamespace, manifestFile, namespace), namespace))

\* The text prepareUninstallManifest writes to the temporary file.
prepareUninstallManifest(manifestFile, namespace) ==
    injectNamespace(solveNamespaceCreation(FALSE, manifestFile, namespace), namespace)

(***************************************************************************)
(* Version Resolver (NewCmdUpdate.PreRunE).  A version is a token          *)
(* sequence: the optional marker "v", then a core such as "1.2.3".         *)
(***************************************************************************)
SemverCores == {"1.2.3", "9.9.9"}
RegistryTags == {<<"v", "1.2.3">>}          \* the tags the remote index publishes
RequestedVersions == {<<>>, <<"1.2.3">>, <<"v", "1.2.3">>, <<"9.9.9">>, <<"bad">>}
DefaultCoreOperatorDockerImageTag == <<"v", "1.2.3">>
DefaultCoreOperatorDockerImage == <<OperatorRepo>>

\* semver.NewSemver(v) succeeds (the library accepts an optional leading "v").
NewSemverOK(v) ==
    \/ Len(v) = 1 /\ v[1] \in SemverCores
    \/ Len(v) = 2 /\ v[1] = "v" /\ v[2] \in SemverCores

\* operatorIndex.Match(ctx, version) fails: the index cannot be read, or holds no such tag.
MatchFails(version, indexReachable) == ~indexReachable \/ version \notin RegistryTags

\* PreRunE of update: the version it leaves in coreOperatorVersion and its error.
PreRunE(coreOperatorVersion, newOperatorOK, indexReachable) ==
    IF coreOperatorVersion = <<>> THEN [err |-> "nil", version |-> <<>>]
    ELSE LET v == IF ~HasPrefix(coreOperatorVersion, <<"v">>)
                    THEN <<"v">> \o coreOperatorVersion ELSE coreOperatorVersion
         IN  IF ~NewSemverOK(v) THEN [err |-> "malformed version", version |-> v]
             ELSE IF ~newOperatorOK THEN [err |-> "index client", version |-> v]
             ELSE IF MatchFails(v, indexReachable)
                    THEN [err |-> "image tag is not available", version |-> v]
                    ELSE [err |-> "nil", version |-> v]

(***************************************************************************)
(* Install-State Inspector: locating the manager (k8s/client.go).          *)
(***************************************************************************)
operatorDeploymentName == <<"calyptia", "-core", "-controller-manager">>

RECURSIVE SearchLoop(_, _, _, _)
\* The loop of SearchManagerAcrossAllNamespaces from the i-th namespace on;
\* manager is "nil", "empty" (a deployment with no name) or the namespace it was found in.
SearchLoop(namespaces, i, managerIn, getFails) ==
    IF i > Len(namespaces) THEN [kind |-> "end", manager |-> "nil"]
    ELSE IF namespaces[i] \in getFails THEN [kind |-> "err", manager |-> "nil"]
    ELSE IF namespaces[i] \in managerIn THEN [kind |-> "end", manager |-> namespaces[i]]
    ELSE LET rest == SearchLoop(namespaces, i + 1, managerIn, getFails)
         IN  IF rest.kind = "end" /\ rest.manager = "nil"
               THEN [kind |-> "end", manager |-> "empty"]
               ELSE rest

\* SearchManagerAcrossAllNamespaces: kind is "ok" (manager found in .ns), "err"
\* (.err names it) or "panic" (manager.Name read through a nil pointer).
SearchManagerAcrossAllNamespaces(namespaces, managerIn, listFails, getFails) ==
    IF listFails THEN [kind |-> "err", err |-> "api error", ns |-> "nil"]
    ELSE LET r == SearchLoop(namespaces, 1, managerIn, getFails)
         IN  IF r.kind = "err" THEN [kind |-> "err", err |-> "api error", ns |-> "nil"]
             ELSE IF r.manager = "nil" THEN [kind |-> "panic", err |-> "nil dereference", ns |-> "nil"]
             ELSE IF r.manager = "empty"
                    THEN [kind |-> "err", err |-> "ErrCoreOperatorNotFound", ns |-> "nil"]
                    ELSE [kind |-> "ok", err |-> "nil", ns |-> r.manager]

\* CheckOperatorVersion on the search's answer and the manager's first container image.
CheckOperatorVersion(search, managerImage) ==
    IF search.kind # "ok" THEN [kind |-> search.kind, err |-> search.err, version |-> <<>>]
    ELSE LET parts == Split(managerImage, <<":">>)
         IN  IF Len(parts) < 2
               THEN [kind |-> "panic", err |-> "index out of range", version |-> <<>>]
             ELSE IF parts[2] = <<>>
               THEN [kind |-> "err", err |-> "could not parse version", version |-> <<>>]
               ELSE [kind |-> "ok", err |-> "nil", version |-> parts[2]]

(***************************************************************************)
(* The embedded manifest.yaml is not among the sources; these stand for    *)
(* it: a namespace document, an RBAC document and the manager deployment   *)
(* last, once with and once without the operator image line.               *)
(***************************************************************************)
ManifestHead ==
    <<"kind: Namespace", "\n", "name: ", "calyptia", "-core", "\n", "---", "\n",
      "kind: ClusterRole", "\n", "name: ", "calyptia", "-core", "-manager-role", "\n", "---", "\n",
      "kind: Deployment", "\n", "name: ", "calyptia", "-core", "-controller-manager", "\n",
      "namespace: ", "calyptia", "-core", "\n">>
EmbeddedManifests ==
    { ManifestHead \o <<"image:", " ", OperatorRepo, ":", "v", "1.2.3", "\n">>,
      ManifestHead \o <<"image:", " ", "other/image", ":", "v", "1.2.3", "\n">> }

\* The image reference of the first "image:" line of a manifest.
ImageOf(text) ==
    LET hits == {i \in 1..Len(text) : text[i] = "image:"}
    IN  IF hits = {} THEN <<>>
        ELSE LET i == CHOOSE h \in hits : \A j \in hits : h <= j
                 b == SkipSpace(text, i + 1)
             IN  SubSeq(text, b, LineEnd(text, b) - 1)

(***************************************************************************)
(* The install, update and uninstall commands.                             *)
(***************************************************************************)
ManifestResources == {"crd", "cluster-roles", "role-bindings", "service-account", "manager"}
TargetNamespaces == {<<"default">>, <<"ns1">>}
Images == {DefaultCoreOperatorDockerImage, <<"img">>}

\* The variables the command flows leave alone.
FlowFrame == UNCHANGED <<mf, client, agg, cluster, ret, wr>>

NoCmd ==
    [op |-> "none", pc |-> "idle", run |-> 0, requested |-> <<>>, version |-> <<>>,
     image |-> <<>>, namespace |-> <<"default">>, waitReady |-> FALSE, confirmed |-> TRUE,
     createNamespace |-> FALSE, manifest |-> 0, prepared |-> <<>>, versionChecked |-> FALSE,
     applyIssued |-> FALSE, deleteIssued |-> FALSE, managerAtStart |-> FALSE,
     waited |-> FALSE, fault |-> FALSE, result |-> "none"]

Return(c, res) == [c EXCEPT !.pc = "done", !.result = res]

\* A return caused by a failure of the environment (API, disk, registry), not by the program's own decision.
Fail(c, res) == [c EXCEPT !.pc = "done", !.result = res, !.fault = TRUE]

CanStart == cmd.pc \in {"idle", "done"} /\ cmd.run < MaxRuns

Start(op, pc, v, img, ns, w, c) ==
    [NoCmd EXCEPT !.op = op, !.pc = pc, !.run = cmd.run + 1, !.requested = v, !.version = v,
                  !.image = img, !.namespace = ns, !.waitReady = w, !.confirmed = c,
                  !.managerAtStart = ("manager" \in kube.resources)]

\* `create operator`: RunE is the whole command, there is no PreRunE.
InstallStart ==
    /\ CanStart
    /\ \E v \in RequestedVersions, img \in Images, ns \in TargetNamespaces, w, c \in BOOLEAN :
         cmd' = Start("install", "client", v, img, ns, w, c)
    /\ UNCHANGED <<kube, fs>>
    /\ FlowFrame

\* `update operator`: cobra runs PreRunE first and RunE only when it returned nil.
UpdateStart ==
    /\ CanStart
    /\ \E v \in RequestedVersions, ns \in TargetNamespaces, w \in BOOLEAN :
         cmd' = Start("update", "prerun", v, DefaultCoreOperatorDockerImage, ns, w, TRUE)
    /\ UNCHANGED <<kube, fs>>
    /\ FlowFrame

UninstallStart ==
    /\ CanStart
    /\ \E ns \in TargetNamespaces :
         cmd' = Start("uninstall", "client", <<>>, <<>>, ns, FALSE, TRUE)
    /\ UNCHANGED <<kube, fs>>
    /\ FlowFrame

UpdatePreRunE ==
    /\ cmd.pc = "prerun"
    /\ \E newOperatorOK, indexReachable \in BOOLEAN :
         LET r == PreRunE(cmd.version, newOperatorOK, indexReachable)
         IN  cmd' = IF r.err # "nil"
                      THEN [Return([cmd EXCEPT !.version = r.version], r.err)
                              EXCEPT !.fault = ~newOperatorOK \/ ~indexReachable]
                    ELSE [cmd EXCEPT !.version = r.version, !.pc = "client",
                                     !.versionChecked = (cmd.version # <<>>)]
    /\ UNCHANGED <<kube, fs>>
    /\ FlowFrame

\* Reading the kube context and building the client set.
ClientSetup ==
    /\ cmd.pc = "client"
    /\ \E ok \in BOOLEAN :
         cmd' = IF ~ok THEN Fail(cmd, "client error")
                ELSE [cmd EXCEPT !.pc = CASE cmd.op = "install" -> IF cmd.confirmed THEN "getns" ELSE "inspect"
                                          [] cmd.op = "update" -> "getns"
                                          [] OTHER -> "version"]
    /\ UNCHANGED <<kube, fs>>
    /\ FlowFrame

\* install.go 92-115: the install-state check and the confirmation prompt.
InstallInspect ==
    /\ cmd.pc = "inspect"
    /\ \E fault \in {"none", "client", "list"}, answer \in {"y", "n", "read error"} :
         cmd' = IF fault = "list" THEN Fail(cmd, "panic")
                ELSE IF fault = "none" /\ kube.resources # {} /\ answer = "read error"
                       THEN Fail(cmd, "could not read answer")
                ELSE IF fault = "none" /\ kube.resources # {} /\ answer = "n"
                       THEN Return(cmd, "nil")
                ELSE [cmd EXCEPT !.pc = "getns", !.fault = (fault # "none")]
    /\ UNCHANGED <<kube, fs>>
    /\ FlowFrame

\* GetNamespace, and in update the default tag for an empty version.
GetNamespace ==
    /\ cmd.pc = "getns"
    /\ \E apiFails \in BOOLEAN :
         cmd' = IF apiFails THEN Fail(cmd, "api error")
                ELSE [cmd EXCEPT !.pc = "prepare",
                                 !.createNamespace = (cmd.namespace \notin Range(kube.namespaces)),
                                 !.version = IF cmd.op = "update" /\ cmd.version = <<>>
                                               THEN DefaultCoreOperatorDockerImageTag
                                               ELSE cmd.version]
    /\ UNCHANGED <<kube, fs>>
    /\ FlowFrame

\* What MkdirTemp, CreateTemp and WriteString leave on disk for invocation run
\* when the step named by io fails ("ok": none fails).
WriteTemp(run, io) ==
    [dirs |-> IF io = "mkdir" THEN fs.dirs ELSE fs.dirs \cup {run},
     files |-> IF io \in {"mkdir", "create"} THEN fs.files ELSE fs.files \cup {run},
     manifestFile |-> fs.manifestFile]

\* os.RemoveAll(path) of a temporary file's path ("" is path 0): the file goes, its directory stays.
RemoveAll(disk, path) == [disk EXCEPT !.files = disk.files \ {path}]

\* installManifest up to the return of prepareInstallManifest.
PrepareInstall ==
    /\ cmd.pc = "prepare"
    /\ \E io \in {"ok", "mkdir", "create", "write"} :
         LET r == prepareInstallManifest(fs.manifestFile, cmd.image, cmd.version,
                                         cmd.namespace, cmd.createNamespace)
         IN  IF r.err # "nil"
               THEN cmd' = Return(cmd, r.err) /\ fs' = RemoveAll(fs, 0)
               ELSE IF io # "ok"
                      THEN cmd' = Fail(cmd, "temp file error") /\ fs' = RemoveAll(WriteTemp(cmd.run, io), 0)
                      ELSE /\ cmd' = [cmd EXCEPT !.pc = "apply", !.manifest = cmd.run, !.prepared = r.text]
                           /\ fs' = WriteTemp(cmd.run, io)
    /\ UNCHANGED kube
    /\ FlowFrame

\* installManifest from `kubectl apply -f manifest` to its return, the deferred
\* os.RemoveAll(manifest) included.
ApplyManifest ==
    /\ cmd.pc = "apply"
    /\ \E ok \in BOOLEAN :
         /\ cmd' = IF ~ok THEN Fail([cmd EXCEPT !.applyIssued = TRUE, !.manifest = 0], "apply error")
                   ELSE IF cmd.waitReady THEN [cmd EXCEPT !.applyIssued = TRUE, !.pc = "wait"]
                   ELSE Return([cmd EXCEPT !.applyIssued = TRUE], "nil")
         /\ kube' = IF ~ok THEN kube
                    ELSE [kube EXCEPT !.resources = ManifestResources,
                                      !.managerIn = {cmd.namespace},
                                      !.managerImage = ImageOf(cmd.prepared),
                                      !.namespaces = IF cmd.createNamespace
                                                       THEN Append(kube.namespaces, cmd.namespace)
                                                       ELSE kube.namespaces]
    /\ fs' = RemoveAll(fs, cmd.manifest)
    /\ FlowFrame

\* extractDeployment(manifest) and WaitReady.
ExtractAndWait ==
    /\ cmd.pc = "wait"
    /\ \E ready \in BOOLEAN :
         cmd' = IF cmd.manifest \notin fs.files THEN Return(cmd, "read file error")
                ELSE IF ready THEN Return([cmd EXCEPT !.waited = TRUE], "nil")
                ELSE Fail([cmd EXCEPT !.waited = TRUE], "timeout")
    /\ UNCHANGED <<kube, fs>>
    /\ FlowFrame

\* uninstall: CheckOperatorVersion.
UninstallCheckVersion ==
    /\ cmd.pc = "version"
    /\ \E listFails \in BOOLEAN :
         LET r == CheckOperatorVersion(
                      SearchManagerAcrossAllNamespaces(kube.namespaces, kube.managerIn, listFails, {}),
                      kube.managerImage)
         IN  cmd' = IF r.kind = "panic" THEN Return(cmd, "panic")
                    ELSE IF r.kind = "err" THEN [Return(cmd, r.err) EXCEPT !.fault = listFails]
                    ELSE [cmd EXCEPT !.pc = "unprepare", !.version = r.version]
    /\ UNCHANGED <<kube, fs>>
    /\ FlowFrame

\* uninstall: prepareUninstallManifest.
PrepareUninstall ==
    /\ cmd.pc = "unprepare"
    /\ \E io \in {"ok", "mkdir", "create", "write"} :
         /\ cmd' = IF io # "ok" THEN Fail(cmd, "temp file error")
                   ELSE [cmd EXCEPT !.pc = "delete", !.manifest = cmd.run,
                                    !.prepared = prepareUninstallManifest(fs.manifestFile, cmd.namespace)]
         /\ fs' = WriteTemp(cmd.run, io)
    /\ UNCHANGED kube
    /\ FlowFrame

\* uninstall: `kubectl delete -f yaml`; os.RemoveAll(yaml) is deferred only after it succeeded.
DeleteManifest ==
    /\ cmd.pc = "delete"
    /\ \E ok \in BOOLEAN :
         /\ cmd' = IF ok THEN Return([cmd EXCEPT !.deleteIssued = TRUE], "nil")
                   ELSE Fail([cmd EXCEPT !.deleteIssued = TRUE], "delete error")
         /\ kube' = IF ok THEN [kube EXCEPT !.resources = {}, !.managerIn = {}] ELSE kube
         /\ fs' = IF ok THEN RemoveAll(fs, cmd.manifest) ELSE fs
    /\ FlowFrame

InitKube ==
    \E ns \in {<<<<"default">>>>, <<<<"default">>, <<"ns1">>>>},
       res \in {{}, {"cluster-roles", "role-bindings", "service-account"}, ManifestResources},
       img \in {<<OperatorRepo, ":", "v", "1.2.3">>, <<OperatorRepo>>} :
      kube = [namespaces |-> ns, resources |-> res,
              managerIn |-> IF "manager" \in res THEN {ns[Len(ns)]} ELSE {},
              managerImage |-> IF "manager" \in res THEN img ELSE <<>>]

Init ==
    /\ cmd = NoCmd
    /\ InitKube
    /\ \E m \in EmbeddedManifests : fs = [dirs |-> {}, files |-> {}, manifestFile |-> m]
    /\ mf = Unused
    /\ client = Unused /\ agg = Unused /\ cluster = Unused /\ ret = Unused /\ wr = Unused

Next ==
    \/ InstallStart
    \/ UpdateStart
    \/ UninstallStart
    \/ UpdatePreRunE
    \/ ClientSetup
    \/ InstallInspect
    \/ GetNamespace
    \/ PrepareInstall
    \/ ApplyManifest
    \/ ExtractAndWait
    \/ UninstallCheckVersion
    \/ PrepareUninstall
    \/ DeleteManifest

Spec == Init /\ [][Next]_vars

(***************************************************************************)
(* Claims about the command flows.                                         *)
(***************************************************************************)

\* C1: an uninstall run on a cluster in which no namespace holds the manager
\* deployment, and in which no call to the environment fails, issues the delete
\* of the manifest's resources and returns success, so that no resource of the
\* manifest remains.
C1_UninstallWithoutManager ==
    (cmd.op = "uninstall" /\ cmd.pc = "done" /\ ~cmd.managerAtStart /\ ~cmd.fault)
        => (cmd.result = "nil" /\ cmd.deleteIssued /\ kube.resources = {})

\* C2: in install and in update, no manifest apply is issued unless the
\* requested version was empty or the version check has succeeded before.
C2_VersionCheckedBeforeApply ==
    (cmd.op \in {"install", "update"} /\ cmd.applyIssued)
        => \/ cmd.requested = <<>>
           \/ cmd.versionChecked /\ NewSemverOK(cmd.version) /\ cmd.version \in RegistryTags

\* C3: whenever install, update or uninstall has returned, no temporary file or
\* directory created during that invocation is left on disk.
C3_NoTempLeftOnReturn ==
    (cmd.pc = "done") => (cmd.run \notin fs.dirs /\ cmd.run \notin fs.files)

(***************************************************************************)
(* The Manifest Preparer on its own: a base manifest is chosen as a list   *)
(* of documents, joined by separator lines, and prepared once.             *)
(***************************************************************************)
DocBodies ==
    { <<>>,
      <<"kind: Namespace", "\n", "name: ", "calyptia", "-core", "\n">>,
      <<"name: ", "calyptia", "-core", "-manager-role", "\n">>,
      <<"name: ", "calyptia", "-core", "-controller-manager", "\n",
        "namespace: ", "calyptia", "-core", "\n",
        "image:", " ", OperatorRepo, ":", "v1", "\n">>,
      <<"namespace: ", "calyptia", "-core", "\n", "image:", " ", "other/image", ":", "v1", "\n">>,
      <<"image:", OperatorRepo, ":", "v1", " ", "# pinned", "\n", "x", "\n">>,
      <<"namespace: ", "calyptia", "-core", "-core", "\n">> }

DocLists == UNION {[1..n -> DocBodies] : n \in 1..MaxDocs}
PrepareNamespaces == {<<"ns1">>, <<"23">>, <<"calyptia">>, <<"calyptia", "-core">>}
PrepareImages == {<<OperatorRepo>>, <<"img">>}
PrepareVersions == {<<>>, <<"v1">>, <<"v2">>, <<"$0">>}

\* The manifest text of a list of documents.
ManifestOf(docs) == Join(docs, Separator)

InitManifest ==
    /\ \E docs \in DocLists, ns \in PrepareNamespaces, img \in PrepareImages,
          v \in PrepareVersions, create \in BOOLEAN :
         mf = [phase |-> "input", docs |-> docs, namespace |-> ns, image |-> img,
               version |-> v, createNamespace |-> create, withNamespace |-> <<>>,
               err |-> "nil", out |-> <<>>, twice |-> <<>>]
    /\ cmd = Unused /\ kube = Unused /\ fs = Unused
    /\ client = Unused /\ agg = Unused /\ cluster = Unused /\ ret = Unused /\ wr = Unused

\* prepareInstallManifest on the chosen inputs; withNamespace is its local of that name.
Prepare ==
    /\ mf.phase = "input"
    /\ LET base == ManifestOf(mf.docs)
           r == prepareInstallManifest(base, mf.image, mf.version, mf.namespace, mf.createNamespace)
       IN  mf' = [mf EXCEPT !.phase = "prepared", !.err = r.err, !.out = r.text,
                            !.withNamespace =
                                injectNamespace(solveNamespaceCreation(mf.createNamespace, base, mf.namespace),
                                                mf.namespace)]
    /\ UNCHANGED <<cmd, kube, fs, client, agg, cluster, ret, wr>>

\* injectNamespace applied once more, to the text it produced.
InjectTwice ==
    /\ mf.phase = "prepared"
    /\ mf' = [mf EXCEPT !.phase = "twice", !.twice = injectNamespace(mf.withNamespace, mf.namespace)]
    /\ UNCHANGED <<cmd, kube, fs, client, agg, cluster, ret, wr>>

NextManifest ==
    \/ Prepare
    \/ InjectTwice

SpecManifest == InitManifest /\ [][NextManifest]_vars

(***************************************************************************)
(* Claims about the Manifest Preparer.                                     *)
(***************************************************************************)

\* A document after the namespace substitution and, when a version is given, the
\* image substitution.
SubstitutedDoc(doc) ==
    LET n == ReplaceAll(doc, NamespacePlaceholder, <<"namespace: ">> \o QuoteIfInteger(mf.namespace))
    IN  IF mf.version = <<>> THEN n ELSE ReplaceAllString(n, ImageLine(mf.image, mf.version))

\* Documents 2..n of the base manifest, each substituted, in their order.
ExpectedDocs == [i \in 1..(Len(mf.docs) - 1) |-> SubstitutedDoc(mf.docs[i + 1])]

\* C4: prepare with createNamespace = false yields exactly documents 2..n of the
\* base manifest, in their order, each identical to the original but for the
\* namespace substitution (and the image substitution when a version is given).
C4_StripsFirstDocumentOnly ==
    (mf.phase = "prepared" /\ ~mf.createNamespace /\ mf.err = "nil")
        => /\ mf.out = Join(ExpectedDocs, Separator)
           /\ Len(mf.docs) >= 2 => Split(mf.out, Separator) = ExpectedDocs

C4_Witness ==
    /\ mf.phase = "prepared" /\ ~mf.createNamespace /\ mf.err = "nil"
    /\ Len(mf.docs) = 3 /\ mf.docs[1] # <<>> /\ mf.docs[2] # mf.docs[3]
    /\ mf.version # <<>> /\ mf.docs[2] # <<>>
    /\ Split(mf.out, Separator) # Tail(mf.docs)

\* The matches of the image pattern in a text.
Matches(s) == {SubSeq(s, i, MatchEnd(s, i) - 1) : i \in {j \in 1..Len(s) : MatchEnd(s, j) # 0}}

\* A line with its match of the image pattern (which runs to the line's end) replaced.
ReplaceInLine(line, repl) ==
    LET i == MatchStart(line, 1)
    IN  IF i = 0 THEN line ELSE SubSeq(line, 1, i - 1) \o repl

\* A text with every matching line's match replaced and all else kept.
ReplacedByLine(s, repl) ==
    LET lines == Split(s, <<"\n">>)
    IN  Join([i \in 1..Len(lines) |-> ReplaceInLine(lines[i], repl)], <<"\n">>)

\* C5 as stated (here for the images and versions that are plain text, free of
\* the replacement metacharacter "$"): when the text given to addImage has a
\* match of the image pattern, the result has 'image: <image>:<version>' at
\* every match, the rest unchanged, and no occurrence of an original image
\* reference.
C5_NoTraceOfOriginal ==
    (mf.phase = "prepared" /\ mf.version # <<>> /\ Matches(mf.withNamespace) # {}
       /\ "$0" \notin Range(mf.version) /\ "$0" \notin Range(mf.image))
        => /\ mf.err = "nil"
           /\ mf.out = ReplacedByLine(mf.withNamespace, ImageLine(mf.image, mf.version))
           /\ \A m \in Matches(mf.withNamespace) : ~Contains(mf.out, m)

\* C5 as amended: for every image and non-empty version free of the replacement
\* metacharacter "$", the result has 'image: <image>:<version>' at every match
\* and the rest unchanged; an original image reference occurs in the result only
\* inside the new text 'image: <image>:<version>' itself.
C5_ImageReplacedEverywhere ==
    (mf.phase = "prepared" /\ mf.version # <<>> /\ Matches(mf.withNamespace) # {}
       /\ "$0" \notin Range(mf.version) /\ "$0" \notin Range(mf.image))
        => /\ mf.err = "nil"
           /\ mf.out = ReplacedByLine(mf.withNamespace, ImageLine(mf.image, mf.version))
           /\ \A m \in Matches(mf.withNamespace) :
                 Contains(mf.out, m) => Contains(ImageLine(mf.image, mf.version), m)

C5_Witness ==
    /\ mf.phase = "prepared" /\ mf.version = <<"v2">> /\ mf.image = <<"img">>
    /\ Cardinality({i \in 1..Len(mf.withNamespace) : MatchEnd(mf.withNamespace, i) # 0}) >= 2
    /\ mf.err = "nil" /\ Matches(mf.out) = {}
    /\ Contains(mf.out, ImageLine(mf.image, mf.version))

(***************************************************************************)
(* Resource Orchestrator (k8s/client.go).                                  *)
(* An object name is a sequence of tokens: the separator "-" and words     *)
(* without a dash ("calyptia", "core1", "dev", "secret", ...), so that two *)
(* names are the same text exactly when they are the same sequence.        *)
(* An object of the cluster is [kind, ns, name, labels]; ns is "" for the  *)
(* cluster-scoped kinds and labels is a set of "key=value" texts.          *)
(***************************************************************************)
defaultObjectMetaNamePrefix == <<"calyptia">>
defaultResourceNamePrefix == <<"calyptia">>
deploymentObjectType == <<"deployment">>
clusterRoleObjectType == <<"cluster", "-", "role">>
clusterRoleBindingObjectType == <<"cluster", "-", "role", "-", "binding">>
secretObjectType == <<"secret">>
serviceAccountObjectType == <<"service", "-", "account">>

\* The namespaces of the cluster, in the order the API lists them.
Namespaces == <<"default", "calyptia">>
\* What client.LabelsFunc() returns.
ClientLabels == {"project=p1"}
\* Label selectors handed to the delete-by-label operations.
Selectors == {"project=p1", "project=p2"}
Instances ==
    {[Name |-> <<"core1">>, EnvironmentName |-> <<"dev">>],
     [Name |-> <<"calyptia">>, EnvironmentName |-> <<"dev">>]}

getObjectMeta(c, a, objectType) ==
    LET name == a.Name \o <<"-">> \o a.EnvironmentName \o <<"-">> \o objectType
    IN  [Name |-> IF ~HasPrefix(name, defaultObjectMetaNamePrefix)
                  THEN defaultObjectMetaNamePrefix \o <<"-">> \o name
                  ELSE name,
         Labels |-> c.Labels]

\* FormatResourceName(parts...).
FormatResourceName(parts) ==
    LET str == Join(parts, <<"-">>)
    IN  IF ~HasPrefix(str, defaultResourceNamePrefix)
        THEN defaultResourceNamePrefix \o <<"-">> \o str
        ELSE str

FormatBool(b) == IF b THEN "true" ELSE "false"

\* The request objects (req) the creation operations populate.  Namespace is
\* the ObjectMeta.Namespace of the request: only the sync deployment sets it.
SecretReq(c, a) ==
    LET metadata == getObjectMeta(c, a, secretObjectType)
    IN  [kind |-> "Secret", name |-> metadata.Name, namespace |-> "", labels |-> metadata.Labels,
         spec |-> [data |-> metadata.Name]]

SecretOperatorRSAKeyReq(c, a) ==
    LET metadata == getObjectMeta(c, a, secretObjectType)
    IN  [kind |-> "Secret", name |-> metadata.Name, namespace |-> "", labels |-> metadata.Labels,
         spec |-> [data |-> <<"private-key">>]]

ClusterRoleReq(c, a, enableOpenShift) ==
    LET metadata == getObjectMeta(c, a, clusterRoleObjectType)
    IN  [kind |-> "ClusterRole", name |-> metadata.Name, namespace |-> "", labels |-> metadata.Labels,
         spec |-> [apiGroups |-> {"", "apps", "batch", "policy", "core.calyptia.com"}
                                   \cup (IF enableOpenShift THEN {"security.openshift.io"} ELSE {}),
                   resources |-> {"namespaces", "deployments", "daemonsets", "replicasets", "pods",
                                  "services", "configmaps", "deployments/scale", "secrets",
                                  "nodes/proxy", "nodes", "jobs", "podsecuritypolicies",
                                  "ingestchecks", "ingestchecks/finalizers", "ingestchecks/status",
                                  "pipelines", "pipelines/finalizers", "pipelines/status"}
                                   \cup (IF enableOpenShift THEN {"securitycontextconstraints"} ELSE {})]]

ServiceAccountReq(c, a) ==
    LET metadata == getObjectMeta(c, a, serviceAccountObjectType)
    IN  [kind |-> "ServiceAccount", name |-> metadata.Name, namespace |-> "", labels |-> metadata.Labels,
         spec |-> <<>>]

ClusterRoleBindingReq(c, a, clusterRole, serviceAccount) ==
    LET metadata == getObjectMeta(c, a, clusterRoleBindingObjectType)
    IN  [kind |-> "ClusterRoleBinding", name |-> metadata.Name, namespace |-> "",
         labels |-> metadata.Labels,
         spec |-> [roleRef |-> clusterRole.name,
                   subject |-> [Namespace |-> c.Namespace, Name |-> serviceAccount.name]]]

DeploymentReq(c, a, image, coreCloudURL, serviceAccount, tlsVerify, skipServiceCreation) ==
    LET metadata == getObjectMeta(c, a, deploymentObjectType)
    IN  [kind |-> "Deployment", name |-> metadata.Name, namespace |-> "", labels |-> metadata.Labels,
         spec |-> [serviceAccountName |-> serviceAccount.name,
                   containers |->
                       <<[Name |-> a.Name, Image |-> image,
                          Env |-> <<[Name |-> "AGGREGATOR_NAME", Value |-> a.Name],
                                    [Name |-> "PROJECT_TOKEN", Value |-> <<c.ProjectToken>>],
                                    [Name |-> "AGGREGATOR_FLUENTBIT_CLOUD_URL", Value |-> coreCloudURL],
                                    [Name |-> "CORE_TLS_VERIFY", Value |-> <<FormatBool(tlsVerify)>>],
                                    [Name |-> "CORE_INSTANCE_SKIP_SERVICE_CREATION",
                                     Value |-> <<FormatBool(skipServiceCreation)>>],
                                    [Name |-> "POD_NAMESPACE", Value |-> <<c.Namespace>>],
                                    [Name |-> "DEPLOYMENT_NAME", Value |-> <<"metadata.name">>]>>]>>]]

CoreOperatorSyncReq(c, a, coreCloudURL, fromCloudImage, toCloudImage, noTLSVerify, serviceAccount) ==
    LET env == <<[Name |-> "CORE_INSTANCE", Value |-> a.Name],
                 [Name |-> "NAMESPACE", Value |-> <<c.Namespace>>],
                 [Name |-> "CLOUD_URL", Value |-> coreCloudURL],
                 [Name |-> "TOKEN", Value |-> <<c.ProjectToken>>],
                 [Name |-> "INTERVAL", Value |-> <<"15s">>],
                 [Name |-> "NO_TLS_VERIFY", Value |-> <<FormatBool(noTLSVerify)>>],
                 [Name |-> "METRICS_PORT", Value |-> <<"15334">>],
                 [Name |-> "HTTP_PROXY", Value |-> <<>>],
                 [Name |-> "HTTPS_PROXY", Value |-> <<>>]>>
    IN  [kind |-> "Deployment",
         name |-> FormatResourceName(<<a.Name, a.EnvironmentName, <<"sync">>>>),
         namespace |-> c.Namespace, labels |-> c.Labels,
         spec |-> [serviceAccountName |-> serviceAccount,
                   containers |->
                       <<[Name |-> a.Name \o <<"-", "sync", "-", "from", "-", "cloud">>,
                          Image |-> fromCloudImage, Env |-> env],
                         [Name |-> a.Name \o <<"-", "sync", "-", "to", "-", "cloud">>,
                          Image |-> toCloudImage, Env |-> env]>>]]

\* Inputs of the creation operations that the model keeps fixed.
CoreImage == <<"img">>
CoreCloudURL == <<"https://cloud-api">>

\* The API server's Create: the object is stored under (kind, namespace, name);
\* apiFails stands for any failure of the call other than a name conflict.
Create(objects, ns, req, apiFails) ==
    IF apiFails THEN [obj |-> <<>>, err |-> "api error", cluster |-> objects, submitted |-> <<req>>]
    ELSE IF \E o \in objects : o.kind = req.kind /\ o.ns = ns /\ o.name = req.name
    THEN [obj |-> <<>>, err |-> "AlreadyExists", cluster |-> objects, submitted |-> <<req>>]
    ELSE [obj |-> <<[req EXCEPT !.namespace = ns]>>, err |-> "nil",
          cluster |-> objects \cup {[kind |-> req.kind, ns |-> ns, name |-> req.name,
                                     labels |-> req.labels]},
          submitted |-> <<req>>]

\* A creation that submits the request even when dryRun is set.
dryRunOrCreate_Submits(objects, ns, req, dryRun, apiFails) ==
    [Create(objects, ns, req, apiFails) EXCEPT !.obj = <<req>>]

\* `if dryRun { return req, nil }` followed by `return client...Create(ctx, req, options)`.
dryRunOrCreate(objects, ns, req, dryRun, apiFails) ==
    IF dryRun
    THEN [obj |-> <<req>>, err |-> "nil", cluster |-> objects, submitted |-> <<>>]
    ELSE Create(objects, ns, req, apiFails)

CreateSecret(objects, c, a, dryRun, apiFails) ==
    dryRunOrCreate(objects, c.Namespace, SecretReq(c, a), dryRun, apiFails)

CreateSecretOperatorRSAKey(objects, c, a, dryRun, apiFails) ==
    dryRunOrCreate(objects, c.Namespace, SecretOperatorRSAKeyReq(c, a), dryRun, apiFails)

CreateClusterRole(objects, c, a, dryRun, enableOpenShift, apiFails) ==
    dryRunOrCreate(objects, "", ClusterRoleReq(c, a, enableOpenShift), dryRun, apiFails)

CreateServiceAccount(objects, c, a, dryRun, apiFails) ==
    dryRunOrCreate(objects, c.Namespace, ServiceAccountReq(c, a), dryRun, apiFails)

CreateClusterRoleBinding(objects, c, a, clusterRole, serviceAccount, dryRun, apiFails) ==
    dryRunOrCreate(objects, "", ClusterRoleBindingReq(c, a, clusterRole, serviceAccount),
                   dryRun, apiFails)

CreateDeployment(objects, c, a, image, coreCloudURL, serviceAccount, tlsVerify, dryRun, apiFails) ==
    dryRunOrCreate(objects, c.Namespace,
                   DeploymentReq(c, a, image, coreCloudURL, serviceAccount, tlsVerify, FALSE),
                   dryRun, apiFails)

\* No dryRun parameter: the request is always submitted.
DeployCoreOperatorSync(objects, c, a, coreCloudURL, noTLSVerify, serviceAccount, apiFails) ==
    Create(objects, c.Namespace,
           CoreOperatorSyncReq(c, a, coreCloudURL, <<"sync-from">>, <<"sync-to">>, noTLSVerify,
                               serviceAccount),
           apiFails)

\* ---- deletion by label selector ----
ApiOutcomes == {"ok", "NotFound", "api error"}

Matching(objects, kind, ns, label) ==
    {o \in objects : o.kind = kind /\ o.ns = ns /\ label \in o.labels}

\* The API server's DeleteCollection with a label selector; a call that fails deletes nothing.
DeleteCollection(objects, kind, ns, label, outcome) ==
    IF outcome = "ok"
    THEN [err |-> "nil", cluster |-> objects \ Matching(objects, kind, ns, label)]
    ELSE [err |-> outcome, cluster |-> objects]

IsNotFound(err) == err = "NotFound"

\* A delete-by-label that hands the not-found answer to its caller.
DeleteByLabel_KeepsNotFound(objects, kind, ns, label, outcome) ==
    DeleteCollection(objects, kind, ns, label, outcome)

\* The body shared by the Delete...ByLabel operations:
\* `err := ...DeleteCollection(...); if apiErrors.IsNotFound(err) { return nil }; return err`.
DeleteByLabel(objects, kind, ns, label, outcome) ==
    LET r == DeleteCollection(objects, kind, ns, label, outcome)
    IN  [r EXCEPT !.err = IF IsNotFound(r.err) THEN "nil" ELSE r.err]

\* ---- deletion of one instance by name ----
DeleteByName(objects, kind, ns, name) ==
    {o \in objects : ~(o.kind = kind /\ o.ns = ns /\ o.name = name)}

\* The struct `core` of DeleteCoreInstance.
CoreNames(name, environment) ==
    [Secret |-> FormatResourceName(<<name, environment, <<"secret">>>>),
     ServiceAccount |-> FormatResourceName(<<name, environment, <<"service", "-", "account">>>>),
     ClusterRole |-> FormatResourceName(<<name, environment, <<"cluster", "-", "role">>>>),
     ClusterRoleBinding |->
         FormatResourceName(<<name, environment, <<"cluster", "-", "role", "-", "binding">>>>),
     Deployment |-> FormatResourceName(<<name, environment, <<"sync">>>>)]

\* The five deletes of one pass of the loop, in the order they are issued.
DeleteSteps(core, ns) ==
    <<[kind |-> "Deployment", ns |-> ns, name |-> core.Deployment],
      [kind |-> "Secret", ns |-> ns, name |-> core.Secret],
      [kind |-> "ClusterRole", ns |-> "", name |-> core.ClusterRole],
      [kind |-> "ClusterRoleBinding", ns |-> "", name |-> core.ClusterRoleBinding],
      [kind |-> "ServiceAccount", ns |-> ns, name |-> core.ServiceAccount]>>

RECURSIVE DeleteFirst(_, _, _)
\* The first k deletes of a pass carried out (a missing object is skipped: not-found is ignored).
DeleteFirst(objects, steps, k) ==
    IF k = 0 THEN objects
    ELSE DeleteByName(DeleteFirst(objects, steps, k - 1), steps[k].kind, steps[k].ns, steps[k].name)

RECURSIVE DeleteInNamespaces(_, _, _, _, _, _, _)
\* The loop over namespaceList.Items from the i-th namespace on.  calls counts
\* the API calls issued so far (the namespace list and the deletes); the
\* faultAt-th of them fails with an error other than not-found (0: none does).
\* gone tells whether a deployment that was deleted stops being returned by
\* Get within the minute that the wait polls for.
DeleteInNamespaces(objects, core, i, calls, shouldWait, faultAt, gone) ==
    IF i > Len(Namespaces) THEN [err |-> "nil", cluster |-> objects, calls |-> calls]
    ELSE
      LET steps == DeleteSteps(core, Namespaces[i])
          done == IF faultAt \in (calls + 1)..(calls + 5) THEN faultAt - calls - 1 ELSE 5
          after == DeleteFirst(objects, steps, done)
          had == \E o \in objects :
                    o.kind = "Deployment" /\ o.ns = Namespaces[i] /\ o.name = core.Deployment
      IN  IF done < 5 THEN [err |-> "api error", cluster |-> after, calls |-> faultAt]
          ELSE IF shouldWait /\ had /\ ~gone
               THEN [err |-> "panic", cluster |-> after, calls |-> calls + 5]
          ELSE DeleteInNamespaces(after, core, i + 1, calls + 5, shouldWait, faultAt, gone)

DeleteCoreInstance(objects, name, environment, shouldWait, faultAt, gone) ==
    IF faultAt = 1 THEN [err |-> "api error", cluster |-> objects, calls |-> 1]
    ELSE DeleteInNamespaces(objects, CoreNames(name, environment), 1, 1, shouldWait, faultAt, gone)

(***************************************************************************)
(* The Resource Orchestrator as a state machine: the caller issues Client  *)
(* methods one after the other against one cluster.  ret records the last  *)
(* call: its arguments, the cluster before it, and what it returned.       *)
(***************************************************************************)
\* The variables the Client methods leave alone.
ClientFrame == UNCHANGED <<cmd, kube, fs, mf, client, agg, wr>>

NoRet ==
    [op |-> "none", dryRun |-> <<>>, enableOpenShift |-> FALSE, tlsVerify |-> FALSE,
     kind |-> "", ns |-> "", label |-> "", outcome |-> "", shouldWait |-> FALSE,
     faultAt |-> 0, gone |-> TRUE, before |-> {}, obj |-> <<>>, submitted |-> <<>>,
     calls |-> 0, err |-> "nil"]

\* The caller issues the next call once it has taken the result of the last one.
Idle == ret.op = "none"

\* A creation operation returned r.
Created(call, r) ==
    /\ Idle
    /\ cluster' = r.cluster
    /\ ret' = [call EXCEPT !.before = cluster, !.obj = r.obj, !.submitted = r.submitted,
                           !.calls = Len(r.submitted), !.err = r.err]
    /\ ClientFrame

CallCreateSecret ==
    \E dryRun \in BOOLEAN, apiFails \in BOOLEAN :
        Created([NoRet EXCEPT !.op = "CreateSecret", !.dryRun = <<dryRun>>],
                CreateSecret(cluster, client, agg, dryRun, apiFails))

CallCreateSecretOperatorRSAKey ==
    \E dryRun \in BOOLEAN, apiFails \in BOOLEAN :
        Created([NoRet EXCEPT !.op = "CreateSecretOperatorRSAKey", !.dryRun = <<dryRun>>],
                CreateSecretOperatorRSAKey(cluster, client, agg, dryRun, apiFails))

CallCreateClusterRole ==
    \E dryRun \in BOOLEAN, enableOpenShift \in BOOLEAN, apiFails \in BOOLEAN :
        Created([NoRet EXCEPT !.op = "CreateClusterRole", !.dryRun = <<dryRun>>,
                              !.enableOpenShift = enableOpenShift],
                CreateClusterRole(cluster, client, agg, dryRun, enableOpenShift, apiFails))

CallCreateServiceAccount ==
    \E dryRun \in BOOLEAN, apiFails \in BOOLEAN :
        Created([NoRet EXCEPT !.op = "CreateServiceAccount", !.dryRun = <<dryRun>>],
                CreateServiceAccount(cluster, client, agg, dryRun, apiFails))

\* The caller passes the objects that CreateClusterRole and CreateServiceAccount returned.
CallCreateClusterRoleBinding ==
    \E dryRun \in BOOLEAN, apiFails \in BOOLEAN :
        Created([NoRet EXCEPT !.op = "CreateClusterRoleBinding", !.dryRun = <<dryRun>>],
                CreateClusterRoleBinding(cluster, client, agg, ClusterRoleReq(client, agg, FALSE),
                                         ServiceAccountReq(client, agg), dryRun, apiFails))

CallCreateDeployment ==
    \E dryRun \in BOOLEAN, tlsVerify \in BOOLEAN, apiFails \in BOOLEAN :
        Created([NoRet EXCEPT !.op = "CreateDeployment", !.dryRun = <<dryRun>>,
                              !.tlsVerify = tlsVerify],
                CreateDeployment(cluster, client, agg, CoreImage, CoreCloudURL,
                                 ServiceAccountReq(client, agg), tlsVerify, dryRun, apiFails))

CallDeployCoreOperatorSync ==
    \E apiFails \in BOOLEAN :
        Created([NoRet EXCEPT !.op = "DeployCoreOperatorSync"],
                DeployCoreOperatorSync(cluster, client, agg, CoreCloudURL, FALSE,
                                       ServiceAccountReq(client, agg).name, apiFails))

\* A delete-by-label operation on the objects of one kind (in namespace ns, "" when cluster-scoped).
Deleted(op, kind, ns, label, outcome) ==
    LET r == DeleteByLabel(cluster, kind, ns, label, outcome)
    IN  /\ Idle
        /\ cluster' = r.cluster
        /\ ret' = [NoRet EXCEPT !.op = op, !.kind = kind, !.ns = ns, !.label = label,
                                !.outcome = outcome, !.before = cluster, !.calls = 1,
                                !.err = r.err]
        /\ ClientFrame

DeleteDeploymentByLabel ==
    \E label \in Selectors, ns \in Range(Namespaces), outcome \in ApiOutcomes :
        Deleted("DeleteDeploymentByLabel", "Deployment", ns, label, outcome)

DeleteDaemonSetByLabel ==
    \E label \in Selectors, ns \in Range(Namespaces), outcome \in ApiOutcomes :
        Deleted("DeleteDaemonSetByLabel", "DaemonSet", ns, label, outcome)

DeleteClusterRoleByLabel ==
    \E label \in Selectors, outcome \in ApiOutcomes :
        Deleted("DeleteClusterRoleByLabel", "ClusterRole", "", label, outcome)

DeleteServiceAccountByLabel ==
    \E label \in Selectors, ns \in Range(Namespaces), outcome \in ApiOutcomes :
        Deleted("DeleteServiceAccountByLabel", "ServiceAccount", ns, label, outcome)

DeleteRoleBindingByLabel ==
    \E label \in Selectors, outcome \in ApiOutcomes :
        Deleted("DeleteRoleBindingByLabel", "ClusterRoleBinding", "", label, outcome)

DeleteSecretByLabel ==
    \E label \in Selectors, ns \in Range(Namespaces), outcome \in ApiOutcomes :
        Deleted("DeleteSecretByLabel", "Secret", ns, label, outcome)

DeleteConfigMapsByLabel ==
    \E label \in Selectors, ns \in Range(Namespaces), outcome \in ApiOutcomes :
        Deleted("DeleteConfigMapsByLabel", "ConfigMap", ns, label, outcome)

\* The API calls of one DeleteCoreInstance: the namespace list and five deletes per namespace.
DeleteCoreInstanceCalls == 1 + 5 * Len(Namespaces)

\* The faults and waits tried: a failing call without waiting, or waiting without a failing call.
DeleteCoreInstanceInputs ==
    {[shouldWait |-> FALSE, faultAt |-> f, gone |-> TRUE] : f \in 0..DeleteCoreInstanceCalls}
        \cup {[shouldWait |-> TRUE, faultAt |-> 0, gone |-> g] : g \in BOOLEAN}

CallDeleteCoreInstance ==
    \E in \in DeleteCoreInstanceInputs :
        LET r == DeleteCoreInstance(cluster, agg.Name, agg.EnvironmentName, in.shouldWait,
                                    in.faultAt, in.gone)
        IN  /\ Idle
            /\ cluster' = r.cluster
            /\ ret' = [NoRet EXCEPT !.op = "DeleteCoreInstance", !.shouldWait = in.shouldWait,
                                    !.faultAt = in.faultAt, !.gone = in.gone,
                                    !.before = cluster, !.calls = r.calls, !.err = r.err]
            /\ ClientFrame

\* The caller takes the value returned and goes on.
TakeResult ==
    /\ ~Idle
    /\ ret' = NoRet
    /\ UNCHANGED cluster
    /\ ClientFrame

\* Objects the cluster holds that this client did not create.
Foreign(c) ==
    LET other == CHOOSE ns \in Range(Namespaces) : ns # c.Namespace
    IN  {[kind |-> "DaemonSet", ns |-> c.Namespace, name |-> <<"fluent", "-", "bit">>,
          labels |-> c.Labels],
         [kind |-> "ConfigMap", ns |-> other, name |-> <<"pipeline", "-", "config">>,
          labels |-> c.Labels],
         [kind |-> "Secret", ns |-> c.Namespace, name |-> <<"registry">>,
          labels |-> {"project=p2"}]}

\* The objects of instance a as DeleteCoreInstance names them, in namespace ns.
Installed(c, a, ns) ==
    LET core == CoreNames(a.Name, a.EnvironmentName)
    IN  {[kind |-> "Deployment", ns |-> ns, name |-> core.Deployment, labels |-> c.Labels],
         [kind |-> "Secret", ns |-> ns, name |-> core.Secret, labels |-> c.Labels],
         [kind |-> "ClusterRole", ns |-> "", name |-> core.ClusterRole, labels |-> c.Labels],
         [kind |-> "ClusterRoleBinding", ns |-> "", name |-> core.ClusterRoleBinding,
          labels |-> c.Labels],
         [kind |-> "ServiceAccount", ns |-> ns, name |-> core.ServiceAccount,
          labels |-> c.Labels]}

InitClient ==
    /\ \E ns \in Range(Namespaces), labels \in {ClientLabels} :
         client = [Namespace |-> ns, Labels |-> labels, ProjectToken |-> "token"]
    /\ agg \in Instances
    /\ cluster \in {Foreign(client),
                    Foreign(client) \cup Installed(client, agg, client.Namespace)}
    /\ ret = NoRet
    /\ cmd = Unused /\ kube = Unused /\ fs = Unused /\ mf = Unused /\ wr = Unused

NextClient ==
    \/ CallCreateSecret
    \/ CallCreateSecretOperatorRSAKey
    \/ CallCreateClusterRole
    \/ CallCreateServiceAccount
    \/ CallCreateClusterRoleBinding
    \/ CallCreateDeployment
    \/ CallDeployCoreOperatorSync
    \/ DeleteDeploymentByLabel
    \/ DeleteDaemonSetByLabel
    \/ DeleteClusterRoleByLabel
    \/ DeleteServiceAccountByLabel
    \/ DeleteRoleBindingByLabel
    \/ DeleteSecretByLabel
    \/ DeleteConfigMapsByLabel
    \/ CallDeleteCoreInstance
    \/ TakeResult

SpecClient == InitClient /\ [][NextClient]_vars

(***************************************************************************)
(* Claims about the Resource Orchestrator.                                 *)
(***************************************************************************)
FlaggedCreateOps ==
    {"CreateSecret", "CreateSecretOperatorRSAKey", "CreateClusterRole", "CreateServiceAccount",
     "CreateClusterRoleBinding", "CreateDeployment"}
CreateOps == FlaggedCreateOps \cup {"DeployCoreOperatorSync"}

\* What the operation of the last call submits to the cluster when it is not a
\* dry run and the API accepts the call, from the cluster the call started in.
WouldSubmit ==
    LET sa == ServiceAccountReq(client, agg)
        r == CASE ret.op = "CreateSecret" ->
                      CreateSecret(ret.before, client, agg, FALSE, FALSE)
               [] ret.op = "CreateSecretOperatorRSAKey" ->
                      CreateSecretOperatorRSAKey(ret.before, client, agg, FALSE, FALSE)
               [] ret.op = "CreateClusterRole" ->
                      CreateClusterRole(ret.before, client, agg, FALSE, ret.enableOpenShift, FALSE)
               [] ret.op = "CreateServiceAccount" ->
                      CreateServiceAccount(ret.before, client, agg, FALSE, FALSE)
               [] ret.op = "CreateClusterRoleBinding" ->
                      CreateClusterRoleBinding(ret.before, client, agg,
                                               ClusterRoleReq(client, agg, FALSE), sa, FALSE, FALSE)
               [] ret.op = "CreateDeployment" ->
                      CreateDeployment(ret.before, client, agg, CoreImage, CoreCloudURL, sa,
                                       ret.tlsVerify, FALSE, FALSE)
               [] OTHER ->
                      DeployCoreOperatorSync(ret.before, client, agg, CoreCloudURL, FALSE,
                                             sa.name, FALSE)
    IN  r.submitted

\* A dry run returned the object a real run submits, called nothing, changed nothing.
DryRunIsPreview ==
    /\ ret.err = "nil"
    /\ ret.obj = WouldSubmit
    /\ Len(ret.obj) = 1 /\ HasPrefix(ret.obj[1].name, <<"calyptia">>)
    /\ ret.obj[1].labels = client.Labels
    /\ ret.submitted = <<>> /\ ret.calls = 0
    /\ cluster = ret.before

\* C6 (as claimed): every creation operation, the sync deployment included,
\* takes a dryRun flag, and with dryRun = true it returns the object that
\* dryRun = false would submit, issues no cluster call and leaves the cluster
\* unchanged.
C6_EveryCreateHasDryRun ==
    (ret.op \in CreateOps)
        => /\ Len(ret.dryRun) = 1
           /\ (ret.dryRun = <<TRUE>> => DryRunIsPreview)

\* C6 (amended): the six creation operations that take a dryRun flag (secret,
\* operator RSA key secret, cluster role, service account, cluster role
\* binding, deployment) return with dryRun = true the object that dryRun =
\* false would submit, issue no cluster call and leave the cluster unchanged;
\* DeployCoreOperatorSync takes no such flag and always submits its request.
C6_DryRunIsPreview ==
    /\ (ret.op \in FlaggedCreateOps)
           => (Len(ret.dryRun) = 1 /\ (ret.dryRun = <<TRUE>> => DryRunIsPreview))
    /\ (ret.op = "DeployCoreOperatorSync")
           => (ret.dryRun = <<>> /\ ret.calls = 1 /\ ret.submitted = WouldSubmit)

\* A dry run of CreateDeployment on a cluster in which the real run would be refused
\* (the deployment exists): the object comes back all the same and nothing is called.
C6_Witness ==
    /\ ret.op = "CreateDeployment" /\ ret.dryRun = <<TRUE>>
    /\ ret.obj # <<>> /\ ret.calls = 0 /\ cluster = ret.before
    /\ \E o \in cluster : o.kind = "Deployment" /\ o.name = ret.obj[1].name

DeleteByLabelOps ==
    {"DeleteDeploymentByLabel", "DeleteDaemonSetByLabel", "DeleteClusterRoleByLabel",
     "DeleteServiceAccountByLabel", "DeleteRoleBindingByLabel", "DeleteSecretByLabel",
     "DeleteConfigMapsByLabel"}

\* The objects the selector of the last call selects, in the cluster before the call.
Selected == {o \in ret.before : o.kind = ret.kind /\ o.ns = ret.ns /\ ret.label \in o.labels}

\* C7: every delete-by-label operation returns no error when the selector
\* matches nothing or the API answers not-found, leaves every object that the
\* selector does not match untouched (and adds none), and returns any other
\* API error unchanged.
C7_DeleteByLabel ==
    (ret.op \in DeleteByLabelOps)
        => /\ (ret.outcome \in {"ok", "NotFound"}) => (ret.err = "nil")
           /\ (ret.outcome \notin {"ok", "NotFound"}) => (ret.err = ret.outcome)
           /\ (ret.before \ Selected) \subseteq cluster
           /\ cluster \subseteq ret.before
           /\ (ret.outcome = "ok") => (cluster \cap Selected = {})

\* A not-found answer for secrets while the namespace holds a secret under another label.
C7_Witness ==
    /\ ret.op = "DeleteSecretByLabel" /\ ret.outcome = "NotFound" /\ ret.err = "nil"
    /\ \E o \in cluster : o.kind = "Secret" /\ o.ns = ret.ns /\ ret.label \notin o.labels

\* C8: DeleteCoreInstance(name, environment) returns nil whether none, some or
\* all of the instance's named resources exist; a second call after a
\* successful one returns nil and leaves the cluster unchanged; an API error
\* other than not-found stops the operation at the failing call and is returned.
C8_DeleteCoreInstanceIdempotent ==
    (ret.op = "DeleteCoreInstance")
        => /\ (ret.faultAt = 0) => (ret.err = "nil")
           /\ (ret.faultAt > 0) => (ret.err = "api error" /\ ret.calls = ret.faultAt)
           /\ (ret.err = "nil")
                  => LET again == DeleteCoreInstance(cluster, agg.Name, agg.EnvironmentName,
                                                     ret.shouldWait, 0, ret.gone)
                     IN  again.err = "nil" /\ again.cluster = cluster

(***************************************************************************)
(* Readiness Waiter (k8s/client.go: WaitReady, isDeploymentReady).         *)
(* Time is counted in whole seconds from the call; an API call takes no    *)
(* time.  wait.PollUntilContextTimeout(ctx, interval, timeout, true, cond) *)
(* derives a context that expires at the deadline, evaluates cond at once  *)
(* and then at every tick of the interval, and returns the context's error *)
(* when the context is done.                                               *)
(***************************************************************************)
\* `3*time.Second`, in seconds.
PollInterval == 3

Timeouts == 1..MaxTimeout

\* A pod as the waiter sees it: its phase and whether one of its containers is in waiting state.
PodStates ==
    {[phase |-> "Running", waiting |-> FALSE],
     [phase |-> "Pending", waiting |-> FALSE],
     [phase |-> "Pending", waiting |-> TRUE]}

\* What listing the deployment's pods can return.
PodLists == UNION {[1..n -> PodStates] : n \in 0..MaxPods}

RECURSIVE PodLoop_LastDecides(_, _, _)
PodLoop_LastDecides(items, i, running) ==
    IF i > Len(items) THEN running
    ELSE PodLoop_LastDecides(items, i + 1, items[i].phase = "Running")

RECURSIVE PodLoop(_, _, _)
\* `for _, pod := range pods.Items { running = pod.Status.Phase == PodRunning; if !running { break } }`
PodLoop(items, i, running) ==
    IF i > Len(items) THEN running
    ELSE LET r == items[i].phase = "Running"
         IN  IF ~r THEN r ELSE PodLoop(items, i + 1, r)

\* A readiness condition without the break: the last pod listed decides.
isDeploymentReady_NoBreak(getFails, listFails, items) ==
    IF getFails \/ listFails THEN [done |-> FALSE, err |-> "api error"]
    ELSE [done |-> PodLoop_LastDecides(items, 1, FALSE), err |-> "nil"]

\* The condition function: (done, err) of one poll.
isDeploymentReady(getFails, listFails, items) ==
    IF getFails \/ listFails THEN [done |-> FALSE, err |-> "api error"]
    ELSE [done |-> PodLoop(items, 1, FALSE), err |-> "nil"]

\* A variant that never builds the composite message.
WaitError_AlwaysBare(err, verbose, getFails, listFails, items) ==
    IF verbose /\ (getFails \/ listFails) THEN "api error" ELSE err

\* The error WaitReady returns once the poll has ended with the error err.
WaitError(err, verbose, getFails, listFails, items) ==
    IF ~verbose THEN err
    ELSE IF getFails \/ listFails THEN "api error"
    ELSE IF \E i \in 1..Len(items) : items[i].waiting
    THEN "failed while waiting for deployment to start"
    ELSE err

\* The pods the composite message lists (by position in the list), when it is built.
WaitMessagePods(verbose, getFails, listFails, items) ==
    IF verbose /\ ~getFails /\ ~listFails
    THEN {i \in 1..Len(items) : items[i].waiting}
    ELSE {}

\* The cluster reads WaitReady makes after the poll has ended with an error.
WaitRereads(verbose, getFails) ==
    IF ~verbose THEN 0 ELSE IF getFails THEN 1 ELSE 2

\* The variables WaitReady leaves alone.
WaitFrame == UNCHANGED <<cmd, kube, fs, mf, client, agg, cluster, ret>>

NoWait ==
    [pc |-> "idle", now |-> 0, timeout |-> 0, nextTick |-> 0, verbose |-> FALSE, pods |-> <<>>,
     polls |-> 0, polledAt |-> 0, polled |-> <<>>, pollErr |-> "nil", result |-> "none",
     returnedAt |-> 0, listed |-> {}, rereads |-> 0]

Returned(w, res) == [w EXCEPT !.pc = "returned", !.result = res, !.returnedAt = w.now]

\* WaitReady returns after the poll has ended with the error err (lines 803-835).
ReturnedError(w, err, getFails, listFails, items) ==
    [Returned(w, WaitError(err, w.verbose, getFails, listFails, items)) EXCEPT
        !.listed = WaitMessagePods(w.verbose, getFails, listFails, items),
        !.rereads = WaitRereads(w.verbose, getFails)]

\* WaitReady is called: the deadline is set and the first poll is due at once (immediate = true).
WaitReadyCall ==
    /\ wr.pc = "idle"
    /\ \E timeout \in Timeouts, verbose \in BOOLEAN :
         wr' = [wr EXCEPT !.pc = "poll", !.timeout = timeout, !.verbose = verbose,
                          !.nextTick = PollInterval]
    /\ WaitFrame

\* A poll loop that treats an error of the condition as "not yet" and goes on.
Poll_RetriesOnError ==
    /\ wr.pc = "poll"
    /\ \E getFails \in BOOLEAN, listFails \in BOOLEAN :
         LET c == isDeploymentReady(getFails, listFails, wr.pods)
             w == [wr EXCEPT !.polls = wr.polls + 1, !.polledAt = wr.now, !.polled = wr.pods,
                             !.pollErr = c.err]
         IN  wr' = IF c.err = "nil" /\ c.done THEN Returned(w, "nil")
                   ELSE [w EXCEPT !.pc = "sleep"]
    /\ WaitFrame

\* One evaluation of the condition; an error or done = true ends the wait.
Poll ==
    /\ wr.pc = "poll"
    /\ \E getFails \in BOOLEAN, listFails \in BOOLEAN, readFails \in BOOLEAN :
         LET c == isDeploymentReady(getFails, listFails, wr.pods)
             w == [wr EXCEPT !.polls = wr.polls + 1, !.polledAt = wr.now, !.polled = wr.pods,
                             !.pollErr = c.err]
         IN  wr' = IF c.err # "nil"
                   THEN ReturnedError(w, c.err, readFails, readFails, wr.pods)
                   ELSE IF c.done THEN Returned(w, "nil")
                   ELSE [w EXCEPT !.pc = "sleep"]
    /\ WaitFrame

\* The select on the context and the timer: time passes, the pods move on;
\* at the deadline the context's error ends the wait, at a tick before it
\* the condition is due again.
Sleep ==
    /\ wr.pc = "sleep"
    /\ \E pods \in PodLists, getFails \in BOOLEAN, listFails \in BOOLEAN :
         LET deadline == wr.timeout
             t == IF wr.nextTick < deadline THEN wr.nextTick ELSE deadline
             w == [wr EXCEPT !.now = t, !.pods = pods]
         IN  wr' = IF t = deadline
                   THEN ReturnedError(w, "context deadline exceeded", getFails, listFails, pods)
                   ELSE [w EXCEPT !.pc = "poll", !.nextTick = wr.nextTick + PollInterval]
    /\ WaitFrame

\* The caller cancels its context while the waiter sleeps; the reads of the
\* verbose branch are made with that context and fail with its error.
Cancel ==
    /\ wr.pc = "sleep"
    /\ \E t \in wr.now..wr.timeout :
         /\ t <= wr.nextTick
         /\ wr' = [Returned([wr EXCEPT !.now = t], "context canceled") EXCEPT
                      !.rereads = WaitRereads(wr.verbose, TRUE)]
    /\ WaitFrame

InitWait ==
    /\ \E pods \in PodLists : wr = [NoWait EXCEPT !.pods = pods]
    /\ cmd = Unused /\ kube = Unused /\ fs = Unused /\ mf = Unused
    /\ client = Unused /\ agg = Unused /\ cluster = Unused /\ ret = Unused

NextWait ==
    \/ WaitReadyCall
    \/ Poll
    \/ Sleep
    \/ Cancel

SpecWait == InitWait /\ [][NextWait]_vars

\* The goroutine that waits is scheduled and its timers fire.
SpecWaitLive == SpecWait /\ WF_vars(NextWait)

(***************************************************************************)
(* Claims about the Readiness Waiter.                                      *)
(***************************************************************************)
AllRunning(items) == \A i \in 1..Len(items) : items[i].phase = "Running"

\* The last poll read the pods without an API error.
PolledPods == wr.polls > 0 /\ wr.pollErr = "nil"

\* WaitReady returned nil at its last poll.
ReturnedNilAtPoll == wr.pc = "returned" /\ wr.result = "nil" /\ wr.returnedAt = wr.polledAt

\* The waiter never outlives its deadline, and returns within timeout + one interval.
WithinDeadline ==
    /\ (wr.pc \in {"poll", "sleep"}) => (wr.now < wr.timeout)
    /\ (wr.pc = "returned") => (wr.returnedAt <= wr.timeout + PollInterval)
    /\ (wr.pc = "returned" /\ wr.result # "nil") => (wr.returnedAt <= wr.timeout)

\* C9 (as claimed): WaitReady returns an error no later than timeout plus one
\* poll interval when the pods never all run, and when at some poll all
\* matched pods are running it returns nil at that poll.
C9_NilWhenAllMatchedRun ==
    /\ WithinDeadline
    /\ (PolledPods /\ AllRunning(wr.polled)) => ReturnedNilAtPoll

C9_Safe ==
    /\ WithinDeadline
    /\ (PolledPods /\ wr.polled # <<>> /\ AllRunning(wr.polled)) => ReturnedNilAtPoll
    /\ (wr.pc = "returned" /\ wr.result = "nil")
           => (ReturnedNilAtPoll /\ PolledPods /\ wr.polled # <<>> /\ AllRunning(wr.polled))
    /\ (PolledPods /\ wr.polled = <<>>) => ~(wr.pc = "returned" /\ wr.result = "nil")

\* C9 (amended): WaitReady is a bounded poll: every call returns, an error
\* comes no later than the timeout, and no return is later than timeout plus
\* one 3-second interval; it returns nil exactly at a poll that lists at
\* least one pod and finds every listed pod running; a poll that lists no
\* pod is not ready and the wait goes on to the next poll or the timeout.
C9_BoundedPoll == []C9_Safe /\ ((wr.pc = "poll") ~> (wr.pc = "returned"))

\* Nil at the second poll, before the deadline, after a first poll that found a pod not running.
C9_Witness ==
    /\ wr.pc = "returned" /\ wr.result = "nil" /\ wr.polls = 2
    /\ wr.returnedAt = PollInterval /\ wr.returnedAt < wr.timeout
    /\ Len(wr.polled) = MaxPods

(***************************************************************************)
(* Install-State Inspector: IsOperatorInstalled (k8s/client.go).           *)
(* The cluster is a set of objects [kind, ns, name, labels]; names are     *)
(* written with the tokens of operatorDeploymentName.  The pipelines       *)
(* custom-resource API answers a list exactly when its definition exists.  *)
(***************************************************************************)
PipelinesCRD ==
    [kind |-> "CustomResourceDefinition", ns |-> "", name |-> <<"pipelines.core.calyptia.com">>,
     labels |-> {}]

WellKnownClusterRoles_Three ==
    {<<"calyptia", "-core", "-manager-role">>, <<"calyptia", "-core", "-metrics-reader">>,
     <<"calyptia", "-core", "-pod-role">>}

\* The names the loop over clusterRoles.Items compares with.
WellKnownClusterRoles ==
    {<<"calyptia", "-core", "-manager-role">>, <<"calyptia", "-core", "-metrics-reader">>,
     <<"calyptia", "-core", "-pod-role">>, <<"calyptia", "-core", "-proxy-role">>}

\* The names the loop over crbList.Items compares with.
WellKnownClusterRoleBindings ==
    {<<"calyptia", "-core", "-manager-rolebinding">>, <<"calyptia", "-core", "-proxy-rolebinding">>}

RECURSIVE SetToSeq(_)
\* The items of a list call, in the order the API returns them.
SetToSeq(S) ==
    IF S = {} THEN <<>>
    ELSE LET x == CHOOSE y \in S : TRUE IN <<x>> \o SetToSeq(S \ {x})

\* k8sc.List(ctx, list, &ListOptions{}): every object of the kind, in all namespaces.
List(objects, kind) == SetToSeq({o \in objects : o.kind = kind})

RECURSIVE Entries(_, _, _)
\* A loop over Items that appends the entry of every item whose name is one of names.
Entries(items, names, prefix) ==
    IF items = <<>> THEN <<>>
    ELSE LET i == Head(items)
             line == IF i.ns = "" THEN prefix \o i.name ELSE prefix \o <<i.ns, "/">> \o i.name
         IN  (IF i.name \in names THEN <<line>> ELSE <<>>) \o Entries(Tail(items), names, prefix)

\* What can go wrong with the API during the inspection.
InspectFaults ==
    {"none", "config", "sentinel", "client", "deployments", "roles", "bindings", "accounts"}

\* IsOperatorInstalled: kind is "ok" (it returned installed, err) or "panic";
\* errors is operatorIncomplete.Errors.
IsOperatorInstalled(objects, fault) ==
    LET crd == IF fault # "sentinel" /\ PipelinesCRD \in objects
               THEN <<<<"CustomResourceDefinition Pipeline installed">>>> ELSE <<>>
        errors ==
            crd
            \o Entries(List(objects, "Deployment"), {operatorDeploymentName}, <<"Operator pod: ">>)
            \o Entries(List(objects, "ClusterRole"), WellKnownClusterRoles, <<"ClusterRole: ">>)
            \o Entries(List(objects, "ClusterRoleBinding"), WellKnownClusterRoleBindings,
                       <<"ClusterRoleBinding: ">>)
            \o Entries(List(objects, "ServiceAccount"), {operatorDeploymentName},
                       <<"ServiceAccount: ">>)
    IN  IF fault = "config"
        THEN [kind |-> "ok", installed |-> FALSE, err |-> "config error", errors |-> <<>>]
        ELSE IF fault \in {"client", "deployments", "roles", "bindings", "accounts"}
        THEN [kind |-> "panic", installed |-> FALSE, err |-> "panic", errors |-> <<>>]
        ELSE IF Len(errors) > 0
        THEN [kind |-> "ok", installed |-> TRUE, err |-> "OperatorIncompleteError",
              errors |-> errors]
        ELSE [kind |-> "ok", installed |-> FALSE, err |-> "nil", errors |-> <<>>]

\* OperatorIncompleteError.Error(): the entries joined by newlines.
OperatorIncompleteErrorText(errors) == Join(errors, <<"\n">>)

\* The objects that the manifest installs, and others that resemble them.
InspectNamespaces == {"default", "calyptia"}
InspectUniverse ==
    {PipelinesCRD}
    \cup {[kind |-> "Deployment", ns |-> ns, name |-> n, labels |-> {}] :
              ns \in InspectNamespaces, n \in {operatorDeploymentName}}
    \cup {[kind |-> "Deployment", ns |-> "default", name |-> <<"nginx">>, labels |-> {}]}
    \cup {[kind |-> "ClusterRole", ns |-> "", name |-> n, labels |-> {}] :
              n \in {<<"calyptia", "-core", "-manager-role">>,
                     <<"calyptia", "-core", "-metrics-reader">>,
                     <<"calyptia", "-core", "-pod-role">>,
                     <<"calyptia", "-core", "-proxy-role">>, <<"view">>}}
    \cup {[kind |-> "ClusterRoleBinding", ns |-> "", name |-> n, labels |-> {}] :
              n \in {<<"calyptia", "-core", "-manager-rolebinding">>,
                     <<"calyptia", "-core", "-proxy-rolebinding">>, <<"view">>}}
    \cup {[kind |-> "ServiceAccount", ns |-> ns, name |-> n, labels |-> {}] :
              ns \in InspectNamespaces, n \in {operatorDeploymentName}}
    \cup {[kind |-> "ServiceAccount", ns |-> "default", name |-> <<"default">>, labels |-> {}]}

\* A complete install in the namespace calyptia.
FullInstall == {o \in InspectUniverse : o.ns \in {"", "calyptia"} /\ o.name # <<"view">>}

\* The variables the inspection leaves alone.
InspectFrame == UNCHANGED <<cmd, kube, fs, mf, client, agg, cluster, wr>>

NoInspect ==
    [op |-> "none", fault |-> "none", kind |-> "ok", installed |-> FALSE, err |-> "nil",
     errors |-> <<>>, message |-> <<>>]

CallIsOperatorInstalled ==
    /\ ret.op = "none"
    /\ \E fault \in InspectFaults :
         LET r == IsOperatorInstalled(cluster, fault)
         IN  ret' = [op |-> "IsOperatorInstalled", fault |-> fault, kind |-> r.kind,
                     installed |-> r.installed, err |-> r.err, errors |-> r.errors,
                     message |-> OperatorIncompleteErrorText(r.errors)]
    /\ InspectFrame

InitInspect ==
    /\ cluster \in {S \in SUBSET InspectUniverse : Cardinality(S) <= MaxResidues}
                       \cup {FullInstall \cup S : S \in SUBSET (InspectUniverse \ FullInstall)}
    /\ ret = NoInspect
    /\ cmd = Unused /\ kube = Unused /\ fs = Unused /\ mf = Unused
    /\ client = Unused /\ agg = Unused /\ wr = Unused

NextInspect == CallIsOperatorInstalled

SpecInspect == InitInspect /\ [][NextInspect]_vars

(***************************************************************************)
(* Claims about the Install-State Inspector.                               *)
(***************************************************************************)
\* The well-known residues a cluster holds: the pipelines custom-resource
\* API, the manager deployment name, the four cluster-role names, the two
\* cluster-role-binding names, the service-account name.
IsResidue(o) ==
    \/ o = PipelinesCRD
    \/ o.kind = "Deployment" /\ o.name = <<"calyptia", "-core", "-controller-manager">>
    \/ o.kind = "ClusterRole"
         /\ o.name \in {<<"calyptia", "-core", "-manager-role">>,
                        <<"calyptia", "-core", "-metrics-reader">>,
                        <<"calyptia", "-core", "-pod-role">>,
                        <<"calyptia", "-core", "-proxy-role">>}
    \/ o.kind = "ClusterRoleBinding"
         /\ o.name \in {<<"calyptia", "-core", "-manager-rolebinding">>,
                        <<"calyptia", "-core", "-proxy-rolebinding">>}
    \/ o.kind = "ServiceAccount" /\ o.name = <<"calyptia", "-core", "-controller-manager">>

Residues == {o \in cluster : IsResidue(o)}

\* The line of the error message that reports residue o.
EntryOf(o) ==
    CASE o.kind = "CustomResourceDefinition" -> <<"CustomResourceDefinition Pipeline installed">>
      [] o.kind = "Deployment" -> <<"Operator pod: ", o.ns, "/">> \o o.name
      [] o.kind = "ClusterRole" -> <<"ClusterRole: ">> \o o.name
      [] o.kind = "ClusterRoleBinding" -> <<"ClusterRoleBinding: ">> \o o.name
      [] OTHER -> <<"ServiceAccount: ", o.ns, "/">> \o o.name

MessageLines == IF ret.message = <<>> THEN <<>> ELSE Split(ret.message, <<"\n">>)

\* C10: when every API call succeeds, IsOperatorInstalled returns (false, nil)
\* on a cluster with none of the well-known residues, and (true, err) with a
\* non-nil error whose message has exactly one entry for every residue
\* present when there is one; the aggregate is non-empty if and only if some
\* residue exists.
C10_IsOperatorInstalled ==
    (ret.op = "IsOperatorInstalled" /\ ret.fault = "none")
        => /\ ret.kind = "ok"
           /\ (Residues = {}) => (~ret.installed /\ ret.err = "nil")
           /\ (Residues # {})
                 => /\ ret.installed /\ ret.err # "nil"
                    /\ \A o \in Residues : EntryOf(o) \in Range(MessageLines)
                    /\ Len(MessageLines) = Cardinality(Residues)
           /\ (Len(ret.errors) > 0) <=> (Residues # {})

\* A complete install beside objects of other names: nine entries, none for the others.
C10_Witness ==
    /\ ret.op = "IsOperatorInstalled" /\ ret.fault = "none"
    /\ FullInstall \subseteq cluster /\ cluster # FullInstall
    /\ ret.installed /\ Len(MessageLines) = 9

(***************************************************************************)
(* Install-State Inspector: the manager search and the version read, each  *)
(* called on its own (k8s/client.go).  kube is the cluster as the search   *)
(* sees it: the namespace listing in API order, the namespaces that hold   *)
(* the manager deployment, and the image of its first container.           *)
(***************************************************************************)
NamespaceNames == {"default", "calyptia", "kube-system", "monitoring"}

\* Listings without repetition of at most MaxNamespaces namespaces, the empty one included.
Listings ==
    UNION {{l \in [1..n -> NamespaceNames] : \A i, j \in 1..n : i # j => l[i] # l[j]}
               : n \in 0..MaxNamespaces}

\* Image references of the manager's first container, each with the tag it
\* carries (<<>>: none).  A registry host may carry a port; a reference may
\* be pinned by digest instead of a tag.
ImageRefs ==
    {[text |-> <<OperatorRepo, ":", "v", "1.2.3">>, tag |-> <<"v", "1.2.3">>],
     [text |-> <<OperatorRepo>>, tag |-> <<>>],
     [text |-> <<OperatorRepo, ":">>, tag |-> <<>>],
     [text |-> <<"localhost", ":", "5000/core-operator">>, tag |-> <<>>],
     [text |-> <<"localhost", ":", "5000/core-operator", ":", "v", "1.2.3">>,
      tag |-> <<"v", "1.2.3">>],
     [text |-> <<OperatorRepo, "@sha256", ":", "0a1b">>, tag |-> <<>>]}

\* The variables the search leaves alone.
SearchFrame == UNCHANGED <<cmd, kube, fs, mf, client, agg, cluster, wr>>

NoSearch ==
    [op |-> "none", listFails |-> FALSE, getFails |-> {}, kind |-> "ok", err |-> "nil",
     ns |-> "nil", version |-> <<>>]

CallSearchManagerAcrossAllNamespaces ==
    /\ ret.op = "none"
    /\ \E listFails \in BOOLEAN, getFails \in SUBSET Range(kube.namespaces) :
         LET r == SearchManagerAcrossAllNamespaces(kube.namespaces, kube.managerIn, listFails,
                                                   getFails)
         IN  ret' = [NoSearch EXCEPT !.op = "SearchManagerAcrossAllNamespaces",
                                     !.listFails = listFails, !.getFails = getFails,
                                     !.kind = r.kind, !.err = r.err, !.ns = r.ns]
    /\ SearchFrame

CallCheckOperatorVersion ==
    /\ ret.op = "none"
    /\ \E listFails \in BOOLEAN, getFails \in SUBSET Range(kube.namespaces) :
         LET search == SearchManagerAcrossAllNamespaces(kube.namespaces, kube.managerIn,
                                                        listFails, getFails)
             r == CheckOperatorVersion(search, kube.managerImage)
         IN  ret' = [NoSearch EXCEPT !.op = "CheckOperatorVersion",
                                     !.listFails = listFails, !.getFails = getFails,
                                     !.kind = r.kind, !.err = r.err, !.ns = search.ns,
                                     !.version = r.version]
    /\ SearchFrame

InitSearch ==
    /\ \E l \in Listings, in \in SUBSET NamespaceNames, img \in ImageRefs :
         /\ in \subseteq Range(l)
         /\ kube = [namespaces |-> l, managerIn |-> in, managerImage |-> img.text]
    /\ ret = NoSearch
    /\ cmd = Unused /\ fs = Unused /\ mf = Unused
    /\ client = Unused /\ agg = Unused /\ cluster = Unused /\ wr = Unused

NextSearch ==
    \/ CallSearchManagerAcrossAllNamespaces
    \/ CallCheckOperatorVersion

SpecSearch == InitSearch /\ [][NextSearch]_vars

(***************************************************************************)
(* Claims about the manager search and the version read.                   *)
(***************************************************************************)
\* The positions of the listing whose namespace holds the manager / whose Get fails.
HoldingAt == {i \in 1..Len(kube.namespaces) : kube.namespaces[i] \in kube.managerIn}
FailingAt == {i \in 1..Len(kube.namespaces) : kube.namespaces[i] \in ret.getFails}
FirstOf(S) == CHOOSE i \in S : \A j \in S : i <= j

\* The search made a call that failed: the listing, or a Get before the manager was found.
SearchCallFailed ==
    \/ ret.listFails
    \/ FailingAt # {} /\ (HoldingAt = {} \/ FirstOf(FailingAt) <= FirstOf(HoldingAt))

\* C11: for every namespace listing, the empty one included, the search
\* returns the manager of the first listed namespace that holds it, returns
\* ErrCoreOperatorNotFound exactly when no namespace holds it and no call
\* failed, and returns the raw API error when the listing or a Get fails.
C11_SearchManager ==
    (ret.op = "SearchManagerAcrossAllNamespaces")
        => /\ (~SearchCallFailed /\ HoldingAt # {})
                  => (ret.kind = "ok" /\ ret.ns = kube.namespaces[FirstOf(HoldingAt)])
           /\ (ret.kind = "err" /\ ret.err = "ErrCoreOperatorNotFound")
                  <=> (~SearchCallFailed /\ HoldingAt = {})
           /\ SearchCallFailed => (ret.kind = "err" /\ ret.err = "api error")

\* The reference of the image of the manager, with the tag it carries.
ManagerImageRef == CHOOSE r \in ImageRefs : r.text = kube.managerImage

\* C16: CheckOperatorVersion returns the tag of the manager's first
\* container image, returns an error value for every image reference
\* without a tag (no crash, no empty or wrong version), and returns the
\* search's error when the manager is not found.
C16_CheckOperatorVersion ==
    (ret.op = "CheckOperatorVersion" /\ kube.namespaces # <<>>)
        => /\ (ret.ns # "nil" /\ ManagerImageRef.tag # <<>>)
                  => (ret.kind = "ok" /\ ret.version = ManagerImageRef.tag)
           /\ (ret.ns # "nil" /\ ManagerImageRef.tag = <<>>) => (ret.kind = "err")
           /\ (ret.ns = "nil")
                  => (ret.kind = "err" /\ ret.err \in {"api error", "ErrCoreOperatorNotFound"})

(***************************************************************************)
(* Claims about the Version Resolver (checked on the update flow of Spec). *)
(***************************************************************************)
\* PreRunE of update has run on a non-empty requested version.
Resolved == cmd.op = "update" /\ cmd.requested # <<>> /\ cmd.pc # "prerun"

\* C12: in update a non-empty requested version gets a leading 'v' when it
\* lacks one, must parse as a semantic version (else an error), and is
\* accepted if and only if the tag registry holds that exact tag; the
\* 'not available' error is produced for an absent tag only, not for a
\* failure to reach the registry.
C12_VersionResolution ==
    Resolved
        => /\ cmd.version = IF HasPrefix(cmd.requested, <<"v">>) THEN cmd.requested
                            ELSE <<"v">> \o cmd.requested
           /\ ~NewSemverOK(cmd.version) => (cmd.pc = "done" /\ cmd.result = "malformed version")
           /\ cmd.versionChecked => (NewSemverOK(cmd.version) /\ cmd.version \in RegistryTags)
           /\ (NewSemverOK(cmd.version) /\ cmd.version \in RegistryTags /\ ~cmd.versionChecked)
                  => (cmd.pc = "done" /\ cmd.fault)
           /\ (NewSemverOK(cmd.version) /\ cmd.version \notin RegistryTags /\ ~cmd.fault)
                  => (cmd.pc = "done" /\ cmd.result = "image tag is not available")
           /\ (cmd.result = "image tag is not available")
                  => (cmd.version \notin RegistryTags /\ ~cmd.fault)

\* ---------------------------------------------------------------------------
\* Rollout Updater: UpdateDeploymentByLabel, UpdateSyncDeploymentByLabel and
\* UpdateOperatorDeploymentByLabel (src/k8s/client.go 442-580).
\* A deployment is [Name, Label, Containers, restarted]; a container is
\* [Name, Image, Env]; an environment variable is [Name, Value].  Container
\* names and images are token sequences.
\* ---------------------------------------------------------------------------
MaxUpdates == 2

coreTLSVerifyEnvVar == "CORE_TLS_VERIFY"
syncTLSVerifyEnvVar == "NO_TLS_VERIFY"
DefaultCoreOperatorToCloudDockerImage == "ghcr.io/calyptia/core-operator/sync-to-cloud"
DefaultCoreOperatorFromCloudDockerImage == "ghcr.io/calyptia/core-operator/sync-from-cloud"

\* The loop of updateEnvVars and of UpdateDeploymentByLabel: every variable
\* whose name is one of names takes the value tlsVerify, in place.
SetValues(envVars, names, tlsVerify) ==
    [i \in 1..Len(envVars) |->
        IF envVars[i].Name \in names THEN [envVars[i] EXCEPT !.Value = tlsVerify]
                                     ELSE envVars[i]]

Found(envVars, names) == \E i \in 1..Len(envVars) : envVars[i].Name \in names

\* A variant of updateEnvVars that puts the new variable first.
updateEnvVars_Prepends(envVars, tlsVerify) ==
    IF Found(envVars, {syncTLSVerifyEnvVar})
    THEN SetValues(envVars, {syncTLSVerifyEnvVar}, tlsVerify)
    ELSE <<[Name |-> coreTLSVerifyEnvVar, Value |-> tlsVerify]>> \o envVars

updateEnvVars(envVars, tlsVerify) ==
    IF Found(envVars, {syncTLSVerifyEnvVar})
    THEN SetValues(envVars, {syncTLSVerifyEnvVar}, tlsVerify)
    ELSE Append(envVars, [Name |-> coreTLSVerifyEnvVar, Value |-> tlsVerify])

\* A variant of the upsert of UpdateDeploymentByLabel that always appends.
upsertTLSVerify_AlwaysAppends(envVars, tlsVerify) ==
    Append(envVars, [Name |-> syncTLSVerifyEnvVar, Value |-> tlsVerify])

\* Lines 456-476 of UpdateDeploymentByLabel.
upsertTLSVerify(envVars, tlsVerify) ==
    IF Found(envVars, {coreTLSVerifyEnvVar, syncTLSVerifyEnvVar})
    THEN SetValues(envVars, {coreTLSVerifyEnvVar, syncTLSVerifyEnvVar}, tlsVerify)
    ELSE Append(envVars, [Name |-> syncTLSVerifyEnvVar, Value |-> tlsVerify])

\* client.FindDeploymentByLabel: the deployments of the client's namespace
\* that carry the label, in list order.
FindDeploymentByLabel(deployments, label) ==
    LET Carries(d) == d.Label = label
    IN  SelectSeq(deployments, Carries)

\* A variant of the update that rewrites every deployment carrying the label.
UpdateStored_EveryMatch(deployments, deployment) ==
    [i \in 1..Len(deployments) |->
        IF deployments[i].Label = deployment.Label
        THEN [deployment EXCEPT !.Name = deployments[i].Name]
        ELSE deployments[i]]

\* Deployments(ns).Update: the stored object of that name is replaced.
UpdateStored(deployments, deployment) ==
    [i \in 1..Len(deployments) |->
        IF deployments[i].Name = deployment.Name THEN deployment ELSE deployments[i]]

\* rolloutDeployment: the restartedAt annotation is patched onto the stored object.
rolloutDeployment(deployments, name) ==
    [i \in 1..Len(deployments) |->
        IF deployments[i].Name = name THEN [deployments[i] EXCEPT !.restarted = TRUE]
                                      ELSE deployments[i]]

RolloutResult(err, deployments, calls) ==
    [err |-> err, deployments |-> deployments, calls |-> calls]

\* The checks every rollout update starts with (442-453, 486-497, 553-564).
RolloutTargetError(deployments, label, fault) ==
    LET items == FindDeploymentByLabel(deployments, label)
    IN  IF fault = "list" THEN "api error"
        ELSE IF Len(items) = 0 THEN "no deployment found with label"
        ELSE IF Len(items[1].Containers) = 0 THEN "no containers found in deployment"
        ELSE "nil"

\* The tail shared by the two waiting operations: Update, then the rollout
\* patch, then WaitReady; the first failure is returned.
\* A variant that puts the old object back when the wait fails.
UpdateRolloutWait_RollsBack(deployments, deployment, fault) ==
    IF fault = "update" THEN RolloutResult("api error", deployments, <<"update">>)
    ELSE LET stored == UpdateStored(deployments, deployment)
         IN  IF fault = "patch" THEN RolloutResult("api error", stored, <<"update", "patch">>)
             ELSE IF fault = "wait"
                    THEN RolloutResult("wait error", deployments, <<"update", "patch", "wait">>)
                    ELSE RolloutResult("nil", rolloutDeployment(stored, deployment.Name),
                                       <<"update", "patch", "wait">>)

UpdateRolloutWait(deployments, deployment, fault) ==
    IF fault = "update" THEN RolloutResult("api error", deployments, <<"update">>)
    ELSE LET stored == UpdateStored(deployments, deployment)
         IN  IF fault = "patch" THEN RolloutResult("api error", stored, <<"update", "patch">>)
             ELSE LET patched == rolloutDeployment(stored, deployment.Name)
                  IN  RolloutResult(IF fault = "wait" THEN "wait error" ELSE "nil",
                                    patched, <<"update", "patch", "wait">>)

UpdateDeploymentByLabel(deployments, label, newImage, tlsVerify, fault) ==
    LET terr == RolloutTargetError(deployments, label, fault)
    IN  IF terr # "nil" THEN RolloutResult(terr, deployments, <<>>)
        ELSE LET deployment == FindDeploymentByLabel(deployments, label)[1]
                 changed == [deployment EXCEPT
                                !.Containers[1].Image = newImage,
                                !.Containers[1].Env = upsertTLSVerify(@, tlsVerify)]
             IN  IF fault = "update"
                 THEN RolloutResult("api error", deployments, <<"update">>)
                 ELSE RolloutResult("nil", UpdateStored(deployments, changed), <<"update">>)

\* One pass of the loop of UpdateSyncDeploymentByLabel over a container: the
\* from-cloud test comes second, so it decides the image of a container
\* whose name holds both substrings.
SyncContainer(container, newImage, tlsVerify) ==
    LET toCloud == Contains(container.Name, <<"to-cloud">>)
        fromCloud == Contains(container.Name, <<"from-cloud">>)
    IN  [container EXCEPT
            !.Image = IF fromCloud THEN <<DefaultCoreOperatorFromCloudDockerImage, ":", newImage>>
                      ELSE IF toCloud THEN <<DefaultCoreOperatorToCloudDockerImage, ":", newImage>>
                      ELSE @,
            !.Env = IF toCloud \/ fromCloud THEN updateEnvVars(container.Env, tlsVerify) ELSE @]

\* A variant of the loop that stops after the first container it rewrote.
SyncContainers_FirstOnly(containers, newImage, tlsVerify) ==
    LET hits == {i \in 1..Len(containers) :
                    SyncContainer(containers[i], newImage, tlsVerify) # containers[i]}
    IN  [i \in 1..Len(containers) |->
            IF i \in hits /\ \A j \in hits : i <= j
            THEN SyncContainer(containers[i], newImage, tlsVerify)
            ELSE containers[i]]

SyncContainers(containers, newImage, tlsVerify) ==
    [i \in 1..Len(containers) |-> SyncContainer(containers[i], newImage, tlsVerify)]

UpdateSyncDeploymentByLabel(deployments, label, newImage, tlsVerify, fault) ==
    LET terr == RolloutTargetError(deployments, label, fault)
    IN  IF terr # "nil" THEN RolloutResult(terr, deployments, <<>>)
        ELSE LET deployment == FindDeploymentByLabel(deployments, label)[1]
                 changed == [deployment EXCEPT
                                !.Containers = SyncContainers(@, newImage, tlsVerify)]
             IN  UpdateRolloutWait(deployments, changed, fault)

UpdateOperatorDeploymentByLabel(deployments, label, newImage, fault) ==
    LET terr == RolloutTargetError(deployments, label, fault)
    IN  IF terr # "nil" THEN RolloutResult(terr, deployments, <<>>)
        ELSE LET deployment == FindDeploymentByLabel(deployments, label)[1]
                 changed == [deployment EXCEPT !.Containers[1].Image = newImage]
             IN  UpdateRolloutWait(deployments, changed, fault)

\* ---- the rollout updater as a state machine ----
EnvVar(name, value) == [Name |-> name, Value |-> value]
EnvLists ==
    {<<>>,
     <<EnvVar("TOKEN", "t"), EnvVar(coreTLSVerifyEnvVar, "true")>>,
     <<EnvVar(syncTLSVerifyEnvVar, "true"), EnvVar("TOKEN", "t")>>}
OldImage == <<"ghcr.io/calyptia/core", ":", "v1">>
Container(name, env) == [Name |-> name, Image |-> OldImage, Env |-> env]
Sidecar == Container(<<"sidecar">>, <<EnvVar(syncTLSVerifyEnvVar, "true")>>)
ContainerLists ==
    {<<>>}
    \cup {<<Container(<<"core">>, e), Sidecar>> : e \in EnvLists}
    \cup {<<Container(<<"foo-", "to-cloud">>, e), Container(<<"foo-", "from-cloud">>, e), Sidecar>> :
            e \in EnvLists}
    \cup {<<Container(<<"to-cloud", "-", "from-cloud">>, <<>>)>>}
Deployment(name, label, containers) ==
    [Name |-> name, Label |-> label, Containers |-> containers, restarted |-> FALSE]
DeploymentLists ==
    {<<>>}
    \cup {<<Deployment("d1", l, c)>> : l \in Selectors, c \in ContainerLists}
    \cup {<<Deployment("d1", l1, c1), Deployment("d2", l2, c2)>> :
            l1 \in Selectors, l2 \in Selectors, c1 \in ContainerLists, c2 \in ContainerLists}
NewImages == {<<"ghcr.io/calyptia/core", ":", "v2">>}
NewVersions == {"v2"}
TLSVerifyValues == {"true", "false"}

RolloutFrame == UNCHANGED <<kube, fs, mf, client, agg, wr>>

NoRollout ==
    [op |-> "none", label |-> "", newImage |-> <<>>, tlsVerify |-> "",
     err |-> "nil", before |-> <<>>, calls |-> <<>>]

RolloutReturned(op, label, newImage, tlsVerify, r) ==
    /\ ret.op = "none"
    /\ cmd.updates < MaxUpdates
    /\ cmd' = [cmd EXCEPT !.updates = @ + 1]
    /\ cluster' = r.deployments
    /\ ret' = [op |-> op, label |-> label, newImage |-> newImage, tlsVerify |-> tlsVerify,
               err |-> r.err, before |-> cluster, calls |-> r.calls]
    /\ RolloutFrame

CallUpdateDeploymentByLabel ==
    \E label \in Selectors, newImage \in NewImages, tlsVerify \in TLSVerifyValues,
       fault \in {"none", "list", "update"} :
        RolloutReturned("UpdateDeploymentByLabel", label, newImage, tlsVerify,
                        UpdateDeploymentByLabel(cluster, label, newImage, tlsVerify, fault))

CallUpdateSyncDeploymentByLabel ==
    \E label \in Selectors, newImage \in NewVersions, tlsVerify \in TLSVerifyValues,
       fault \in {"none", "list", "update", "patch", "wait"} :
        RolloutReturned("UpdateSyncDeploymentByLabel", label, <<newImage>>, tlsVerify,
                        UpdateSyncDeploymentByLabel(cluster, label, newImage, tlsVerify, fault))

CallUpdateOperatorDeploymentByLabel ==
    \E label \in Selectors, newImage \in NewImages,
       fault \in {"none", "list", "update", "patch", "wait"} :
        RolloutReturned("UpdateOperatorDeploymentByLabel", label, newImage, "",
                        UpdateOperatorDeploymentByLabel(cluster, label, newImage, fault))

TakeRolloutResult ==
    /\ ret.op # "none"
    /\ ret' = NoRollout
    /\ UNCHANGED <<cmd, cluster>>
    /\ RolloutFrame

InitRollout ==
    /\ cluster \in DeploymentLists
    /\ ret = NoRollout
    /\ cmd = [updates |-> 0]
    /\ kube = Unused /\ fs = Unused /\ mf = Unused
    /\ client = Unused /\ agg = Unused /\ wr = Unused

NextRollout ==
    \/ CallUpdateDeploymentByLabel
    \/ CallUpdateSyncDeploymentByLabel
    \/ CallUpdateOperatorDeploymentByLabel
    \/ TakeRolloutResult

SpecRollout == InitRollout /\ [][NextRollout]_vars

\* ---- claims about the rollout updater ----
\* The deployment the last operation picked, before and after the call.
TargetBefore == FindDeploymentByLabel(ret.before, ret.label)[1]
TargetAfter == CHOOSE d \in Range(cluster) : d.Name = TargetBefore.Name

ToCloudImage == <<DefaultCoreOperatorToCloudDockerImage, ":">> \o ret.newImage
FromCloudImage == <<DefaultCoreOperatorFromCloudDockerImage, ":">> \o ret.newImage
NamesToCloud(c) == Contains(c.Name, <<"to-cloud">>)
NamesFromCloud(c) == Contains(c.Name, <<"from-cloud">>)

SyncStored == ret.op = "UpdateSyncDeploymentByLabel" /\ Len(ret.calls) >= 2

\* C13 (as stated): after the sync rollout update every container whose name
\* contains "to-cloud" has the to-cloud image of the new version, every
\* container whose name contains "from-cloud" has the from-cloud image of the
\* new version, and a container matching neither keeps its image and
\* environment.
C13_SyncRewritesBoth ==
    SyncStored =>
        /\ Len(TargetAfter.Containers) = Len(TargetBefore.Containers)
        /\ \A i \in 1..Len(TargetBefore.Containers) :
             LET b == TargetBefore.Containers[i]
                 a == TargetAfter.Containers[i]
             IN  /\ a.Name = b.Name
                 /\ NamesToCloud(b) => a.Image = ToCloudImage
                 /\ NamesFromCloud(b) => a.Image = FromCloudImage
                 /\ (~NamesToCloud(b) /\ ~NamesFromCloud(b)) => (a.Image = b.Image /\ a.Env = b.Env)

\* C13 (amended): a container whose name contains "from-cloud" has the
\* from-cloud image of the new version, a container whose name contains
\* "to-cloud" and not "from-cloud" has the to-cloud image, and a container
\* matching neither keeps its image and environment.
C13_SyncRewrite ==
    SyncStored =>
        /\ Len(TargetAfter.Containers) = Len(TargetBefore.Containers)
        /\ \A i \in 1..Len(TargetBefore.Containers) :
             LET b == TargetBefore.Containers[i]
                 a == TargetAfter.Containers[i]
             IN  /\ a.Name = b.Name
                 /\ (NamesToCloud(b) /\ ~NamesFromCloud(b)) => a.Image = ToCloudImage
                 /\ NamesFromCloud(b) => a.Image = FromCloudImage
                 /\ (~NamesToCloud(b) /\ ~NamesFromCloud(b)) => (a.Image = b.Image /\ a.Env = b.Env)

\* A sync deployment with a to-cloud, a from-cloud and an unrelated container was updated.
C13_Witness ==
    /\ SyncStored
    /\ \E i, j, k \in 1..Len(TargetBefore.Containers) :
         /\ NamesToCloud(TargetBefore.Containers[i]) /\ ~NamesFromCloud(TargetBefore.Containers[i])
         /\ NamesFromCloud(TargetBefore.Containers[j]) /\ ~NamesToCloud(TargetBefore.Containers[j])
         /\ ~NamesToCloud(TargetBefore.Containers[k]) /\ ~NamesFromCloud(TargetBefore.Containers[k])
         /\ TargetAfter.Containers[i].Image = ToCloudImage
         /\ TargetAfter.Containers[j].Image = FromCloudImage
         /\ TargetBefore.Containers[i].Image # ToCloudImage
         /\ TargetAfter.Containers[k] = TargetBefore.Containers[k]

TLSVerifyNames == {coreTLSVerifyEnvVar, syncTLSVerifyEnvVar}
ImageUpdated == ret.op = "UpdateDeploymentByLabel" /\ ret.err = "nil"

\* C14: after a successful UpdateDeploymentByLabel the first container of the
\* picked deployment has the new image; its TLS-verification variable has the
\* value tlsVerify, replaced in place when the variable was there and appended
\* as one new variable otherwise; every other variable keeps its name, value
\* and position; every other container is unchanged.
C14_UpdateDeploymentByLabel ==
    ImageUpdated =>
        LET b == TargetBefore.Containers
            a == TargetAfter.Containers
            be == b[1].Env
            ae == a[1].Env
        IN  /\ Len(a) = Len(b)
            /\ a[1].Name = b[1].Name
            /\ a[1].Image = ret.newImage
            /\ \A i \in 2..Len(b) : a[i] = b[i]
            /\ \A i \in 1..Len(be) :
                 /\ i <= Len(ae)
                 /\ ae[i].Name = be[i].Name
                 /\ ae[i].Value = IF be[i].Name \in TLSVerifyNames THEN ret.tlsVerify ELSE be[i].Value
            /\ IF \E i \in 1..Len(be) : be[i].Name \in TLSVerifyNames
               THEN Len(ae) = Len(be)
               ELSE /\ Len(ae) = Len(be) + 1
                    /\ ae[Len(ae)].Name \in TLSVerifyNames
                    /\ ae[Len(ae)].Value = ret.tlsVerify

\* The variable was there with another value, next to a second variable and a
\* second container, and the image was not the new one.
C14_Witness ==
    /\ ImageUpdated
    /\ Len(TargetBefore.Containers) >= 2
    /\ TargetBefore.Containers[1].Image # ret.newImage
    /\ \E i, j \in 1..Len(TargetBefore.Containers[1].Env) :
         /\ TargetBefore.Containers[1].Env[i].Name \in TLSVerifyNames
         /\ TargetBefore.Containers[1].Env[i].Value # ret.tlsVerify
         /\ TargetAfter.Containers[1].Env[i].Value = ret.tlsVerify
         /\ TargetBefore.Containers[1].Env[j].Name \notin TLSVerifyNames

RolloutOps ==
    {"UpdateDeploymentByLabel", "UpdateSyncDeploymentByLabel", "UpdateOperatorDeploymentByLabel"}
MatchedBefore == FindDeploymentByLabel(ret.before, ret.label)
NoTarget == Len(MatchedBefore) = 0 \/ Len(MatchedBefore[1].Containers) = 0
OthersUnchanged ==
    /\ Len(cluster) = Len(ret.before)
    /\ \A i \in 1..Len(ret.before) :
         ret.before[i].Name # MatchedBefore[1].Name => cluster[i] = ret.before[i]

\* C15: a rollout update whose selector matches no deployment, or whose
\* matched deployment has no containers, returns an error and issues no
\* update, patch or wait; when several deployments match, the update goes to
\* the first listed one and every other deployment is left as it was.
C15_RolloutTarget ==
    ret.op \in RolloutOps =>
        /\ NoTarget => (ret.err # "nil" /\ ret.calls = <<>> /\ cluster = ret.before)
        /\ (~NoTarget /\ Len(MatchedBefore) > 1) =>
              /\ OthersUnchanged
              /\ ret.err = "nil" =>
                    /\ ret.calls # <<>>
                    /\ ret.op # "UpdateSyncDeploymentByLabel" =>
                          TargetAfter.Containers[1].Image = ret.newImage
                    /\ ret.op # "UpdateDeploymentByLabel" => TargetAfter.restarted

\* Two deployments matched; the first was changed and the second, which had
\* the same containers, was not.
C15_Witness ==
    /\ ret.op \in RolloutOps
    /\ ret.err = "nil"
    /\ Len(MatchedBefore) = 2
    /\ MatchedBefore[1].Containers = MatchedBefore[2].Containers
    /\ TargetAfter # TargetBefore
    /\ cluster[2] = ret.before[2]
    /\ cluster[1] # ret.before[1]

\* ---- claims about injectNamespace (SpecManifest) ----
\* The text injectNamespace was given, and the positions of the placeholder in it.
InjectInput == solveNamespaceCreation(mf.createNamespace, ManifestOf(mf.docs), mf.namespace)
PlaceholderAt(s) ==
    {i \in 1..Len(s) : i + 2 <= Len(s) /\ SubSeq(s, i, i + 2) = NamespacePlaceholder}
WrittenNamespace ==
    IF \A i \in 1..Len(mf.namespace) : mf.namespace[i] \in {"1", "23"}
    THEN <<"namespace: ", "\"">> \o mf.namespace \o <<"\"">>
    ELSE <<"namespace: ">> \o mf.namespace

\* Every placeholder of the input is the written namespace in the output, and
\* every other token is where the replacements moved it to.
ReplacedEverywhere ==
    LET s == InjectInput
        out == mf.withNamespace
        at == PlaceholderAt(s)
        grow == Len(WrittenNamespace) - 3
        Shift(i) == i + Cardinality({p \in at : p + 2 < i}) * grow
    IN  /\ Len(out) = Len(s) + Cardinality(at) * grow
        /\ \A p \in at :
             SubSeq(out, Shift(p), Shift(p) + Len(WrittenNamespace) - 1) = WrittenNamespace
        /\ \A i \in 1..Len(s) :
             (\A p \in at : i < p \/ i > p + 2) => out[Shift(i)] = s[i]

SpellsPlaceholder(namespace) ==
    \/ HasPrefix(namespace, <<"calyptia", "-core">>)
    \/ HasPrefix(<<"calyptia", "-core">>, namespace)

NoImageLine == FindString(fs.manifestFile) = <<>>

\* C18: when a version is supplied and the manifest has no line matching the
\* core-operator image pattern, the prepare step returns the error "could not
\* find image in manifest" with nothing written to disk and nothing applied to
\* the cluster.
C18_NoImageFailsBeforeWrite ==
    [][(cmd.pc = "prepare" /\ cmd.version # <<>> /\ NoImageLine)
          => /\ cmd'.pc = "done"
             /\ cmd'.result = "could not find image in manifest"
             /\ ~cmd'.applyIssued
             /\ fs' = fs
             /\ kube' = kube]_vars

\* An install or update with a version returned the image error.
C18_Witness ==
    /\ cmd.pc = "done"
    /\ cmd.result = "could not find image in manifest"
    /\ cmd.version # <<>>
    /\ NoImageLine
    /\ ~cmd.applyIssued
    /\ cmd.run \notin fs.files /\ cmd.run \notin fs.dirs

\* ---------------------------------------------------------------------------
\* Resource names on their own: getObjectMeta and FormatResourceName applied
\* to two (instance name, environment name, kind) triples.  Names are words
\* joined by "-", as instance and environment names are in the cloud API.
\* ---------------------------------------------------------------------------
InstanceNames == {<<"a">>, <<"a", "-", "b">>, <<"calyptia">>, <<"calyptia", "-", "a">>}
EnvironmentNames == {<<"c">>, <<"b", "-", "c">>, <<"dev">>}
ObjectTypes ==
    {deploymentObjectType, clusterRoleObjectType, clusterRoleBindingObjectType,
     secretObjectType, serviceAccountObjectType}
\* The kinds DeleteCoreInstance and DeployCoreOperatorSync hand to FormatResourceName.
ResourceKinds ==
    {<<"secret">>, <<"service", "-", "account">>, <<"cluster", "-", "role">>,
     <<"cluster", "-", "role", "-", "binding">>, <<"sync">>}
NameTriples(kinds) ==
    {[Name |-> n, EnvironmentName |-> e, kind |-> k] :
        n \in InstanceNames, e \in EnvironmentNames, k \in kinds}

NamesFrame == UNCHANGED <<cmd, kube, fs, mf, client, cluster, wr>>

NoNames == [op |-> "none", first |-> <<>>, second |-> <<>>, again |-> <<>>]

CallGetObjectMeta ==
    /\ ret.op = "none"
    /\ \E x \in NameTriples(ObjectTypes), y \in NameTriples(ObjectTypes) :
         /\ agg' = [first |-> x, second |-> y]
         /\ ret' = [op |-> "getObjectMeta",
                    first |-> getObjectMeta(client, x, x.kind).Name,
                    second |-> getObjectMeta(client, y, y.kind).Name,
                    again |-> getObjectMeta(client, x, x.kind).Name]
    /\ NamesFrame

CallFormatResourceName ==
    /\ ret.op = "none"
    /\ \E x \in NameTriples(ResourceKinds), y \in NameTriples(ResourceKinds) :
         /\ agg' = [first |-> x, second |-> y]
         /\ ret' = [op |-> "FormatResourceName",
                    first |-> FormatResourceName(<<x.Name, x.EnvironmentName, x.kind>>),
                    second |-> FormatResourceName(<<y.Name, y.EnvironmentName, y.kind>>),
                    again |-> FormatResourceName(<<x.Name, x.EnvironmentName, x.kind>>)]
    /\ NamesFrame

InitNames ==
    /\ \E ns \in Range(Namespaces), labels \in {ClientLabels} :
         client = [Namespace |-> ns, Labels |-> labels, ProjectToken |-> "token"]
    /\ agg = [first |-> <<>>, second |-> <<>>]
    /\ ret = NoNames
    /\ cmd = Unused /\ kube = Unused /\ fs = Unused /\ mf = Unused
    /\ cluster = Unused /\ wr = Unused

NextNames ==
    \/ CallGetObjectMeta
    \/ CallFormatResourceName

SpecNames == InitNames /\ [][NextNames]_vars

\* C19: two distinct (instance name, environment name, kind) triples never
\* get the same resource name; every derived name starts with "calyptia";
\* the same triple always gets the same name.
C19_NamesInjective ==
    ret.op # "none" =>
        /\ agg.first # agg.second => ret.first # ret.second
        /\ HasPrefix(ret.first, <<"calyptia">>)
        /\ ret.again = ret.first

\* The parts of C19 that do not depend on injectivity.
C19_PrefixedAndStable ==
    ret.op # "none" => (HasPrefix(ret.first, <<"calyptia">>) /\ ret.again = ret.first)

\* ---- claims about failures of the install-state check (Spec) ----
\* C20: when the install-state check of install meets a failure of the
\* infrastructure (it cannot build its client, or cannot list the cluster's
\* objects), install returns at once with an error value: it does not go on
\* towards applying the manifest and the process does not crash.
C20_InspectFailureAborts ==
    [][(cmd.op = "install" /\ cmd.pc = "inspect" /\ cmd'.fault)
          => /\ cmd'.pc = "done"
             /\ cmd'.result \notin {"nil", "panic"}
             /\ ~cmd'.applyIssued]_vars

C22_WaitFollowsApply ==
    /\ cmd.pc = "wait" => cmd.manifest \in fs.files
    /\ (cmd.waitReady /\ cmd.applyIssued /\ cmd.pc = "done" /\ cmd.result = "nil") => cmd.waited
    /\ (cmd.waitReady /\ cmd.applyIssued /\ cmd.pc = "done" /\ ~cmd.waited)
          => cmd.result = "apply error"

\* ---- claims about the order of the rollout steps (SpecRollout) ----
IsPrefixOf(s, t) == Len(s) <= Len(t) /\ SubSeq(t, 1, Len(s)) = s

\* The calls the last operation made follow `full` in order, stop at the first
\* failure, and what was written before the failure is still in the cluster.
StepsFollow(full) ==
    /\ IsPrefixOf(ret.calls, full)
    /\ ret.err = "nil" => ret.calls = full
    /\ (ret.calls # <<>> /\ ret.calls # full) => ret.err # "nil"
    /\ (ret.err # "nil" /\ Len(ret.calls) <= 1) => cluster = ret.before
    /\ (Len(ret.calls) >= 2 /\ ret.op # "UpdateSyncDeploymentByLabel")
          => TargetAfter.Containers[1].Image = ret.newImage
    /\ (Len(ret.calls) = 2 /\ ret.err # "nil") => TargetAfter.restarted = TargetBefore.restarted
    /\ Len(ret.calls) = 3 => TargetAfter.restarted

\* C23 (as stated): every rollout update runs the full-object update, then the
\* restartedAt patch, then (in the waiting variants) WaitReady; a step runs
\* only after the one before succeeded, the first error is returned, and
\* what was already written stays written.
C23_UpdatePatchWait ==
    ret.op \in RolloutOps =>
        StepsFollow(IF ret.op = "UpdateDeploymentByLabel"
                    THEN <<"update", "patch">> ELSE <<"update", "patch", "wait">>)

\* C23 (amended): UpdateDeploymentByLabel runs the full-object update only;
\* the two waiting variants run update, patch, WaitReady as above.
C23_StepsInOrder ==
    ret.op \in RolloutOps =>
        StepsFollow(IF ret.op = "UpdateDeploymentByLabel"
                    THEN <<"update">> ELSE <<"update", "patch", "wait">>)

\* The wait failed after update and patch, and both are still in the cluster.
C23_Witness ==
    /\ ret.op = "UpdateOperatorDeploymentByLabel"
    /\ ret.calls = <<"update", "patch", "wait">>
    /\ ret.err = "wait error"
    /\ TargetBefore.Containers[1].Image # ret.newImage
    /\ ~TargetBefore.restarted
    /\ TargetAfter.Containers[1].Image = ret.newImage
    /\ TargetAfter.restarted

\* ---- claims about errors while polling (SpecWait) ----
\* C24: a poll whose get or list fails ends WaitReady with an error at that
\* poll, and no poll follows it; a poll that finds a pod not yet running
\* ends with the waiter asleep until the next tick.
C24_ApiErrorEndsWait ==
    [][/\ (wr.pc = "poll" /\ wr'.pollErr # "nil")
            => /\ wr'.pc = "returned"
               /\ wr'.result \notin {"nil", "none"}
               /\ wr'.returnedAt = wr.now
       /\ (wr.pc = "poll" /\ wr'.pollErr = "nil"
             /\ \E i \in 1..Len(wr.pods) : wr.pods[i].phase # "Running")
            => wr'.pc = "sleep"
       /\ wr.pc = "returned" => wr'.polls = wr.polls]_vars

\* A first poll found a pod not running, a later poll failed and ended the wait.
C24_Witness ==
    /\ wr.pc = "returned"
    /\ wr.pollErr = "api error"
    /\ wr.polls >= 2
    /\ wr.result = "api error"
    /\ wr.returnedAt = wr.polledAt
    /\ wr.returnedAt < wr.timeout

\* ---- claims about the readiness condition (SpecWait) ----
EveryPodRuns(items) == \A i \in 1..Len(items) : items[i].phase = "Running"
PollSaysReady == wr'.pc = "returned" /\ wr'.result = "nil"

\* C25 (as stated): the condition of a poll is true exactly when every pod
\* the list returned is in the running phase, whatever their number and order.
C25_ReadyIffEveryPodRuns ==
    [][(wr.pc = "poll" /\ wr'.pollErr = "nil") => (PollSaysReady <=> EveryPodRuns(wr.pods))]_vars

\* C25 (amended): the condition is true exactly when the list returned at
\* least one pod and every pod of it is in the running phase.
C25_ReadyIffSomeAndEveryPodRuns ==
    [][(wr.pc = "poll" /\ wr'.pollErr = "nil")
          => (PollSaysReady <=> (Len(wr.pods) > 0 /\ EveryPodRuns(wr.pods)))]_vars

\* A poll saw a pod not running listed before a running one, and did not report ready.
C25_Witness ==
    /\ wr.pc = "sleep"
    /\ wr.pollErr = "nil"
    /\ wr.polledAt = wr.now
    /\ Len(wr.polled) = 2
    /\ wr.polled[1].phase # "Running"
    /\ wr.polled[2].phase = "Running"

\* ---- claims about the error of a timeout (SpecWait) ----
TimedOut == wr.pc = "sleep" /\ wr'.pc = "returned" /\ wr'.result # "context canceled"
WaitingPods(items) == {i \in 1..Len(items) : items[i].waiting}
BareTimeout == wr'.result = "context deadline exceeded" /\ wr'.listed = {}
Composite ==
    /\ wr'.result = "failed while waiting for deployment to start"
    /\ wr'.listed = WaitingPods(wr'.pods)

\* C26 (as stated): at a timeout, verbose and some pod with a waiting
\* container give the composite error listing each such pod; verbose and no
\* waiting container, or no verbose, give the bare timeout error; without
\* verbose no cluster read is made after the poll.
C26_TimeoutError ==
    [][TimedOut =>
          /\ (wr.verbose /\ WaitingPods(wr'.pods) # {}) => Composite
          /\ (~wr.verbose \/ WaitingPods(wr'.pods) = {}) => BareTimeout
          /\ ~wr.verbose => wr'.rereads = 0]_vars

\* C26 (amended): the same when the reads made after the timeout succeed;
\* when the get or the list of the verbose branch fails, that read's error is
\* returned in place of both.
C26_TimeoutErrorWhenReread ==
    [][TimedOut =>
          /\ wr.verbose =>
                /\ wr'.rereads \in {1, 2}
                /\ \/ wr'.result = "api error" /\ wr'.listed = {}
                   \/ WaitingPods(wr'.pods) # {} /\ Composite
                   \/ WaitingPods(wr'.pods) = {} /\ BareTimeout
          /\ ~wr.verbose => (BareTimeout /\ wr'.rereads = 0)]_vars

\* A verbose wait timed out with one pod waiting and one not, and listed the first.
C26_Witness ==
    /\ wr.pc = "returned" /\ wr.verbose
    /\ wr.returnedAt = wr.timeout
    /\ wr.result = "failed while waiting for deployment to start"
    /\ Len(wr.pods) = 2
    /\ wr.listed = {1}
    /\ wr.rereads = 2

\* ---------------------------------------------------------------------------
\* The rollout update next to an external writer.  The list, the full-object
\* update and the annotation patch of UpdateDeploymentByLabel and
\* UpdateOperatorDeploymentByLabel are separate requests; between them another
\* actor may write the deployment.  A stored deployment carries a
\* resourceVersion, which every write advances; an update that names a
\* resourceVersion other than the stored one is rejected with a conflict.
\* ---------------------------------------------------------------------------
MaxExternalWrites == 2
ExternalImages == {<<"registry.example/core", ":", "hotfix">>}

Versioned(d, rv) ==
    [Name |-> d.Name, Label |-> d.Label, Containers |-> d.Containers,
     restarted |-> d.restarted, resourceVersion |-> rv]

\* A variant of the update that sends the object without its resourceVersion.
UpdateChecked_Unconditional(deployments, deployment) ==
    [err |-> "nil",
     deployments |-> UpdateStored(deployments,
                                  [deployment EXCEPT !.resourceVersion =
                                      1 + (CHOOSE d \in Range(deployments) : d.Name = deployment.Name).resourceVersion])]

\* Deployments(ns).Update(ctx, &deployment): the object that was listed goes
\* back whole, its resourceVersion included, and is stored only if that is
\* still the stored one.
UpdateChecked(deployments, deployment) ==
    IF \E i \in 1..Len(deployments) :
          /\ deployments[i].Name = deployment.Name
          /\ deployments[i].resourceVersion = deployment.resourceVersion
    THEN [err |-> "nil",
          deployments |-> UpdateStored(deployments, [deployment EXCEPT !.resourceVersion = @ + 1])]
    ELSE [err |-> "conflict", deployments |-> deployments]

\* Deployments(ns).Patch with the restartedAt annotation: no resourceVersion
\* is sent, the annotation is merged into whatever is stored.
PatchStored(deployments, name) ==
    LET patched == rolloutDeployment(deployments, name)
    IN  [i \in 1..Len(patched) |->
            IF patched[i].Name = name THEN [patched[i] EXCEPT !.resourceVersion = @ + 1]
                                      ELSE patched[i]]

ConcurrentFrame == UNCHANGED <<kube, fs, mf, client, agg, wr>>

NoConcurrent ==
    [pc |-> "idle", op |-> "none", label |-> "", newImage |-> <<>>, tlsVerify |-> "",
     listed |-> <<>>, calls |-> <<>>, err |-> "nil",
     writtenSinceList |-> FALSE, writtenSinceUpdate |-> FALSE]

\* FindDeploymentByLabel and the checks on its result (443-453, 554-564).
ListForUpdate ==
    /\ ret.pc = "idle"
    /\ \E op \in {"UpdateDeploymentByLabel", "UpdateOperatorDeploymentByLabel"},
          label \in Selectors, newImage \in NewImages, tlsVerify \in TLSVerifyValues,
          fault \in {"none", "list"} :
         LET terr == RolloutTargetError(cluster, label, fault)
             call == [NoConcurrent EXCEPT !.op = op, !.label = label, !.newImage = newImage,
                                          !.tlsVerify = tlsVerify]
         IN  ret' = IF terr # "nil" THEN [call EXCEPT !.pc = "done", !.err = terr]
                    ELSE [call EXCEPT !.pc = "listed",
                                      !.listed = FindDeploymentByLabel(cluster, label)[1]]
    /\ UNCHANGED <<cmd, cluster>>
    /\ ConcurrentFrame

\* The change made to the listed copy and the Update request (454-481, 566-570).
SendUpdate ==
    /\ ret.pc = "listed"
    /\ \E fault \in {"none", "update"} :
         LET changed == IF ret.op = "UpdateDeploymentByLabel"
                        THEN [ret.listed EXCEPT
                                 !.Containers[1].Image = ret.newImage,
                                 !.Containers[1].Env = upsertTLSVerify(@, ret.tlsVerify)]
                        ELSE [ret.listed EXCEPT !.Containers[1].Image = ret.newImage]
             r == UpdateChecked(cluster, changed)
             sent == [ret EXCEPT !.calls = <<"update">>]
         IN  IF fault = "update" \/ r.err # "nil"
             THEN /\ ret' = [sent EXCEPT !.pc = "done",
                                         !.err = IF r.err # "nil" THEN r.err ELSE "api error"]
                  /\ UNCHANGED cluster
             ELSE /\ cluster' = r.deployments
                  /\ ret' = IF ret.op = "UpdateDeploymentByLabel"
                            THEN [sent EXCEPT !.pc = "done"]
                            ELSE [sent EXCEPT !.pc = "updated"]
    /\ UNCHANGED cmd
    /\ ConcurrentFrame

\* rolloutDeployment and WaitReady (571-579).
SendPatch ==
    /\ ret.pc = "updated"
    /\ \E fault \in {"none", "patch", "wait"} :
         IF fault = "patch"
         THEN /\ ret' = [ret EXCEPT !.pc = "done", !.err = "api error",
                                    !.calls = <<"update", "patch">>]
              /\ UNCHANGED cluster
         ELSE /\ cluster' = PatchStored(cluster, ret.listed.Name)
              /\ ret' = [ret EXCEPT !.pc = "done", !.calls = <<"update", "patch", "wait">>,
                                    !.err = IF fault = "wait" THEN "wait error" ELSE "nil"]
    /\ UNCHANGED cmd
    /\ ConcurrentFrame

\* Another actor replaces the image of the first container of a deployment.
ExternalWrite ==
    /\ cmd.writes < MaxExternalWrites
    /\ \E i \in 1..Len(cluster), image \in ExternalImages :
         /\ Len(cluster[i].Containers) > 0
         /\ cluster' = [cluster EXCEPT ![i].Containers[1].Image = image,
                                       ![i].resourceVersion = @ + 1]
         /\ ret' = IF ret.pc \in {"listed", "updated"} /\ ret.listed.Name = cluster[i].Name
                   THEN [ret EXCEPT !.writtenSinceList = TRUE,
                                    !.writtenSinceUpdate = (ret.pc = "updated") \/ @]
                   ELSE ret
    /\ cmd' = [cmd EXCEPT !.writes = @ + 1]
    /\ ConcurrentFrame

InitConcurrent ==
    /\ \E l \in DeploymentLists :
         /\ Len(l) >= 1
         /\ cluster = [i \in 1..Len(l) |-> Versioned(l[i], 1)]
    /\ ret = NoConcurrent
    /\ cmd = [writes |-> 0]
    /\ kube = Unused /\ fs = Unused /\ mf = Unused
    /\ client = Unused /\ agg = Unused /\ wr = Unused

NextConcurrent ==
    \/ ListForUpdate
    \/ SendUpdate
    \/ SendPatch
    \/ ExternalWrite

SpecConcurrent == InitConcurrent /\ [][NextConcurrent]_vars

\* ---- claims about the external writer ----
StoredTarget == CHOOSE d \in Range(cluster) : d.Name = ret.listed.Name

\* C27: when another actor has written the deployment between the library's
\* list and its update, the update is rejected, its error is returned after
\* that one request, and the other actor's image is still stored; a conflict
\* is returned in no other case; the annotation patch goes through whatever
\* was written since the update and leaves the other actor's image in place.
C27_ExternalWriteNotOverwritten ==
    /\ (ret.pc \in {"updated", "done"} /\ ret.calls # <<>>
           /\ ret.writtenSinceList /\ ~ret.writtenSinceUpdate)
          => /\ ret.pc = "done"
             /\ ret.err \in {"conflict", "api error"}
             /\ ret.calls = <<"update">>
             /\ StoredTarget.Containers[1].Image \in ExternalImages
             /\ ~StoredTarget.restarted
    /\ ret.err = "conflict" => (ret.writtenSinceList /\ ret.calls = <<"update">>)
    /\ (ret.pc = "done" /\ ret.writtenSinceUpdate)
          => /\ ret.err # "conflict"
             /\ Len(ret.calls) = 3 => (StoredTarget.restarted
                                       /\ StoredTarget.Containers[1].Image \in ExternalImages)

\* The update met another actor's write and was rejected.
C27_Witness ==
    /\ ret.pc = "done"
    /\ ret.err = "conflict"
    /\ ret.writtenSinceList
    /\ ret.listed.Containers[1].Image # StoredTarget.Containers[1].Image
    /\ StoredTarget.Containers[1].Image \in ExternalImages
    /\ StoredTarget.resourceVersion > ret.listed.resourceVersion

\* ---- claims about create and delete agreeing on names (SpecClient) ----
\* The names the create operations give to the objects of instance a.
CreatedNames(a) ==
    {getObjectMeta(client, a, t).Name : t \in ObjectTypes}
        \cup {FormatResourceName(<<a.Name, a.EnvironmentName, <<"sync">>>>)}
LeftOfInstance(a) == {o \in cluster : o.name \in CreatedNames(a)}

\* C28: after a DeleteCoreInstance(name, environment) that returned nil, no
\* object carrying a name the create operations derive for that instance is
\* left in the cluster.
C28_DeleteRemovesCreated ==
    (ret.op = "DeleteCoreInstance" /\ ret.err = "nil") => LeftOfInstance(agg) = {}

\* ---- claims about the TLS-verification upsert over several updates (SpecRollout) ----
UniqueNames(envVars) ==
    \A i, j \in 1..Len(envVars) : envVars[i].Name = envVars[j].Name => i = j

\* The last update, made once more with the same arguments, would leave the
\* environment lists as they are.
RepeatLeavesEnv ==
    LET again == IF ret.op = "UpdateDeploymentByLabel"
                 THEN UpdateDeploymentByLabel(cluster, ret.label, ret.newImage, ret.tlsVerify, "none")
                 ELSE UpdateSyncDeploymentByLabel(cluster, ret.label, Head(ret.newImage),
                                                  ret.tlsVerify, "none")
    IN  \A i \in 1..Len(cluster) : \A k \in 1..Len(cluster[i].Containers) :
            again.deployments[i].Containers[k].Env = cluster[i].Containers[k].Env

\* C29: after any sequence of UpdateDeploymentByLabel and
\* UpdateSyncDeploymentByLabel calls, no container has two environment
\* variables of one name, and repeating the last update with the same
\* tlsVerify leaves every environment list as the first one left it.
C29_UpsertNeverDuplicates ==
    /\ \A i \in 1..Len(cluster) : \A k \in 1..Len(cluster[i].Containers) :
          UniqueNames(cluster[i].Containers[k].Env)
    /\ (ret.op \in {"UpdateDeploymentByLabel", "UpdateSyncDeploymentByLabel"} /\ ret.err = "nil")
          => RepeatLeavesEnv

RECURSIVE NamesFrom(_, _)
\* The values of the name fields of a manifest text from position i on, in order.
NamesFrom(text, i) ==
    IF i > Len(text) THEN <<>>
    ELSE IF text[i] = "name: "
           THEN <<SubSeq(text, i + 1, LineEnd(text, i + 1) - 1)>> \o NamesFrom(text, i + 1)
           ELSE NamesFrom(text, i + 1)

\* The documents of the base manifest that the prepared manifest keeps.
KeptBase == IF mf.createNamespace THEN ManifestOf(mf.docs) ELSE ManifestOf(Tail(mf.docs))

ManagerDeploymentName == <<"calyptia", "-core", "-controller-manager">>

\* C30: preparing the manifest, with createNamespace true or false, leaves the
\* name of every object other than the namespace object (whose name is exactly
\* calyptia-core) as it is in the base manifest, the manager deployment's
\* calyptia-core-controller-manager among them.
C30_OtherNamesKept ==
    mf.phase \in {"prepared", "twice"} =>
        LET b == NamesFrom(KeptBase, 1)
            o == NamesFrom(mf.withNamespace, 1)
        IN  /\ Len(o) = Len(b)
            /\ \A k \in 1..Len(b) : b[k] # <<"calyptia", "-core">> => o[k] = b[k]
====
